---- MODULE Spec2Model ----
(***************************************************************************)
(* A model of the EventBus of lithium-core (src/src/event-bus.js): the     *)
(* registry of signal-backed channels (channel, publish, subscribe, clear, *)
(* clearAll, the TTL and debounce timers, the storage helpers) and the     *)
(* instant events (emit, on, once, off).                                   *)
(*                                                                         *)
(* JavaScript runs every handler to completion on one thread, so every     *)
(* handler is one action.  The handlers call one another (publish and      *)
(* subscribe call channel, an unsubscribe handle and the TTL timer call    *)
(* clear), so each handler is written as an operator from the bus before   *)
(* the call to the bus after it, and an action applies one of them.        *)
(***************************************************************************)
EXTENDS Integers, Sequences, FiniteSets, TLC

VARIABLES
    channels,       \* EventBus.channels: name -> channel object (or NoChannel)
    chanOrder,      \* insertion order of the keys of EventBus.channels
    created,        \* name -> number of channel objects created under the name
    store,          \* sessionStorage / localStorage: mode -> key -> text
    storageDenied,  \* the environment refuses access to the Storage objects
    now,            \* Date.now(), also the clock of setTimeout
    timers,         \* the pending setTimeout timers: name -> the TTL timer
                    \* and the debounce timer set for the channel
    handles,        \* the unsubscribe closures subscribe() has returned
                    \* (closures over a cleared channel object that
                    \* behave alike are kept as one, and so are the
                    \* closures of several subscribe calls with one
                    \* callback on one channel object)
    subscriptions,  \* history: callback -> the channel object it was
                    \* subscribed to last and the number of subscribe
                    \* calls with it on that object since a handle for it
                    \* was called (counted where a specification says so)
    eventListeners, \* EventBus.eventListeners: event name -> the Set object
                    \* registered under it (0: no entry)
    listenerSets,   \* the Set objects on() has created: their wrapped
                    \* listeners in insertion order
    regs,           \* the closures of the on() calls: listener, options,
                    \* debounceTimer, lastCallTime, hasExecuted
    hosts,          \* the component instances of the class with the
                    \* @conditional getter: the property named by the key,
                    \* the controllers added to the instance
    controller,     \* the variable `controller` of the decorator's closure
    placeholder,    \* the placeholder the decorator was applied with
    element,        \* the element whose getter has @lazy, @defer or @delay
    loadController, \* the options of that decorator and the controller
                    \* the getter creates on its first read
    location,       \* window.location.pathname
    history,        \* window.history: the paths of its entries, the last
                    \* one current
    router,         \* the lithium-router element
    pendingGuards,  \* the calls of beforeRoute whose promise is not
                    \* settled, with what the awaiting function holds
    guardCalls,     \* the number of calls of beforeRoute so far
    out             \* what the last handler did that its caller can observe

evVars == <<eventListeners, listenerSets, regs>>

condVars == <<hosts, controller, placeholder>>

routerVars == <<location, history, router, pendingGuards, guardCalls>>

loadVars == <<element, loadController>>

uiVars == <<condVars, routerVars, loadVars>>

vars == <<channels, chanOrder, created, store, storageDenied, now, timers,
          handles, subscriptions, eventListeners, listenerSets, regs, hosts, controller,
          placeholder, element, loadController, location, history, router, pendingGuards, guardCalls,
          out>>

---------------------------------------------------------------------------
(* Bounds of the model *)

MaxInst == 2        \* channel objects created per name
MaxTime == 3        \* clock ticks after StartTime
MaxPub  == 2        \* accepted publishes logged per channel object
MaxReg  == 2        \* on() / once() calls
MaxHist == 3        \* entries of window.history
MaxGuard == 2       \* calls of beforeRoute
MaxLoad == 2        \* calls of the loader of a decorated getter

---------------------------------------------------------------------------
(* JavaScript values *)

Undefined == "undefined"
Null      == "null"
Val       == {Undefined, Null, "v1", "v2"}

\* `value !== undefined && value !== null` (event-bus.js:69, :143)
NonAbsent(v) == v /= Undefined /\ v /= Null

Names     == {"count", "theme"}
\* the name most callers use
OneName   == {"count"}
Callbacks == {"s1", "s2"}
\* a subscriber callback that publishes v2 to its own channel when it is
\* invoked with v1
Republisher == "s3"
\* what a subscriber callback does when it is called: s1 throws, s2 returns
Throws(cb) == cb = "s1"

\* event names, and the on() calls in the order they are made
EventNames == {"ping", "pong"}
RegIds     == 1..MaxReg
RegName(r) == "r" \o ToString(r)

\* Date.now() when the page starts: far above any debounce/throttle/ttl
StartTime == 10
\* the intervals given in configurations (0: option not given)
Debounce  == 2
Throttle  == 2
Ttl       == 3

Modes == {"memory", "session", "persistent"}

\* `lithium:${channelName}` (event-bus.js:62)
DefaultKey(n) == "lithium:" \o n
Keys          == {DefaultKey(n) : n \in Names}

---------------------------------------------------------------------------
(* Hooks given in configurations.  A hook is named; "none" is no hook. *)

\* validate hooks: "notV2" refuses v2, "defined" refuses undefined and null
\* ("throwsV2", as validate or as transform hook: throws when it is given
\* v2, and lets every other value pass unchanged)
Validate(h, v) ==
    CASE h = "notV2"   -> v /= "v2"
      [] h = "defined" -> NonAbsent(v)
      [] OTHER         -> TRUE

\* transform hooks: "swap" maps v1 -> v2 -> null -> v1 and keeps undefined
Transform(h, v) ==
    CASE h = "swap" -> (CASE v = "v1" -> "v2"
                          [] v = "v2" -> Null
                          [] v = Null -> "v1"
                          [] OTHER    -> Undefined)
      [] OTHER      -> v

\* `config || {}` with the defaults of the destructuring (event-bus.js:62)
NoConfig ==
    [ initialValue |-> Undefined, storage |-> "memory", storageKey |-> "",
      ttl |-> 0, autoCleanup |-> FALSE, validate |-> "none",
      transform |-> "none", onChange |-> FALSE, onInit |-> FALSE,
      onClear |-> FALSE, debounce |-> 0, throttle |-> 0,
      \* what the hooks given do when they are called: return, or throw
      hooksThrow |-> FALSE ]

\* storageKey = `lithium:${channelName}` unless the configuration gives one
KeyOf(n, c) == IF c.storageKey = "" THEN DefaultKey(n) ELSE c.storageKey

---------------------------------------------------------------------------
(* Storage: store.setItem(key, JSON.stringify(value)), JSON.parse(raw) *)

NoItem == "<no item>"       \* getItem(key) returns null

\* a number without a JSON text
NaN == "NaN"

\* The text setItem stores for JSON.stringify(v): undefined has no JSON
\* text and setItem stores String(undefined); NaN is written as null.
JSONstringify(v) ==
    CASE v = "v1" -> "1"
      [] v = "v2" -> "2"
      [] v = Null -> "null"
      [] v = NaN  -> "null"
      [] OTHER    -> "undefined"

\* Texts JSON.parse accepts, and what it returns for them
Parsable == {"1", "2", "null"}
JSONparse(raw) ==
    CASE raw = "1" -> "v1"
      [] raw = "2" -> "v2"
      [] OTHER    -> Null

\* Texts a store may hold from an earlier page: values, and malformed ones
RawTexts == {"1", "2", "null", "undefined", "{bad"}

\* a bug: a malformed text is taken for null
GetFromStorage_BadAsNull(st, denied, key, storage) ==
    IF storage = "memory" THEN Undefined
    ELSE IF denied THEN Undefined
    ELSE LET raw == st[storage][key] IN
         IF raw = NoItem \/ raw = "" THEN Undefined ELSE JSONparse(raw)

\* a bug: the store is not read
GetFromStorage_Never(st, denied, key, storage) == Undefined

\* getFromStorage (event-bus.js:470-482): a missing or empty entry, a
\* refused access and a text JSON.parse throws on all give undefined.
GetFromStorage(st, denied, key, storage) ==
    IF storage = "memory" THEN Undefined
    ELSE IF denied THEN Undefined
    ELSE LET raw == st[storage][key] IN
         IF raw = NoItem \/ raw = "" THEN Undefined
         ELSE IF raw \in Parsable THEN JSONparse(raw)
         ELSE Undefined

\* saveToStorage (event-bus.js:483-495); `fails`: setItem throws (quota)
SaveToStorage(st, denied, key, value, storage, fails) ==
    IF storage = "memory" \/ denied \/ fails THEN st
    ELSE [st EXCEPT ![storage][key] = JSONstringify(value)]

\* a bug: the entry is left in the store
RemoveFromStorage_Kept(st, denied, key, storage) == st

\* removeFromStorage (event-bus.js:496-506)
RemoveFromStorage(st, denied, key, storage) ==
    IF storage = "memory" \/ denied THEN st
    ELSE [st EXCEPT ![storage][key] = NoItem]

---------------------------------------------------------------------------
(* Channel objects *)

\* A timer of setTimeout: pending until it fires or clearTimeout is called
\* with its id; at: when it is due; new, old: the arguments the closure
\* executeCallback holds (debounce timers)
NoTimer  == [pending |-> FALSE, at |-> 0, new |-> Undefined, old |-> Undefined]
NoTimers == [ttl |-> NoTimer, deb |-> NoTimer]

\* no subscribe call with the callback so far
NoSubscription == [inst |-> 0, count |-> 0]

NoSeen == [cb \in Callbacks \cup {Republisher} |-> <<>>]
NoMark == [cb \in Callbacks \cup {Republisher} |-> 0]

\* The entry of a name EventBus.channels has no channel for.  (createdAt
\* is left out: only getChannelInfo reads it, to report the age; the ids
\* timeoutId and onChangeDebounceTimer are the entries of `timers`.)
NoChannel ==
    [ live |-> FALSE, inst |-> 0, value |-> Undefined, storage |-> "memory",
      storageKey |-> "", subscribers |-> <<>>, ttl |-> 0,
      autoCleanup |-> FALSE, config |-> NoConfig,
      isInitialized |-> FALSE, onChangeLastCall |-> 0,
      \* history of the channel object, read by the properties only
      nInit |-> 0, hadValue |-> FALSE, pubs |-> <<>>, seen |-> NoSeen,
      subAt |-> NoMark ]

\* One invocation of a hook, subscriber or listener by the bus
Call(fn, n, who, arg, old) ==
    [fn |-> fn, name |-> n, who |-> who, arg |-> arg, old |-> old]

\* The bus as a handler sees and changes it
Bus ==
    [ ch |-> channels, order |-> chanOrder, created |-> created,
      st |-> store, tm |-> timers, hs |-> handles, calls |-> <<>>,
      reads |-> <<>>, warn |-> FALSE,
      serr |-> FALSE, cerr |-> FALSE,
      thrown |-> FALSE, ret |-> 0 ]

\* The bus invokes a hook or a subscriber of channel n; reads: what
\* EventBus.getValue(n) returns (event-bus.js:243-245) to a callback that
\* calls it, one entry per invocation
\* (the try/catch around a hook logs its exception: event-bus.js:90-97,
\* 146-151, 175-180, 257-262)
Invoke(B, n, call) ==
    [B EXCEPT !.calls = Append(@, call),
              !.reads = Append(@, IF B.ch[n].live THEN B.ch[n].value
                                  ELSE Undefined),
              !.cerr  = @ \/ ( /\ call.fn \in {"onInit", "onChange", "onClear"}
                               /\ B.ch[n].config.hooksThrow )]

SeqWithout(s, x) == SelectSeq(s, LAMBDA y : y /= x)
InSeq(s, x)      == \E i \in 1..Len(s) : s[i] = x

\* getFromStorage logs an error when the access or JSON.parse throws
ReadThrows(st, key, storage) ==
    /\ storage /= "memory"
    /\ \/ storageDenied
       \/ st[storage][key] \notin (Parsable \cup {NoItem, ""})

---------------------------------------------------------------------------
(* EventBus.channel (event-bus.js:56-99) *)

\* a bug: the configured value is preferred to the stored one
InitialValue_ConfigFirst(storedValue, initialValue) ==
    IF initialValue /= Undefined THEN initialValue ELSE storedValue

\* line 65: `storedValue !== undefined ? storedValue : initialValue`
InitialValue(storedValue, initialValue) ==
    IF storedValue /= Undefined THEN storedValue ELSE initialValue

\* lines 62-98: no channel has the name
CreateChannel(B, n, c) ==
      LET storage       == c.storage
          storageKey    == KeyOf(n, c)
          storedValue   == GetFromStorage(B.st, storageDenied, storageKey, storage)
          value         == InitialValue(storedValue, c.initialValue)
          isInitialized == NonAbsent(value)
          id            == B.created[n] + 1
          runInit       == isInitialized /\ c.onInit
          channel ==
            [ NoChannel EXCEPT
                !.live = TRUE, !.inst = id, !.value = value,
                !.storage = storage, !.storageKey = storageKey,
                !.ttl = c.ttl, !.autoCleanup = c.autoCleanup,
                !.config = c,
                !.isInitialized = isInitialized,
                !.nInit = IF runInit THEN 1 ELSE 0,
                !.hadValue = NonAbsent(value) ]
          B1 == [B EXCEPT
            !.ch[n]      = channel,
            !.order      = Append(@, n),
            !.created[n] = id,
            !.tm[n].ttl  = IF c.ttl > 0
                           THEN [NoTimer EXCEPT !.pending = TRUE,
                                                !.at = now + c.ttl]
                           ELSE @,
            !.serr       = @ \/ ReadThrows(B.st, storageKey, storage),
            !.ret        = id]
      IN IF runInit THEN Invoke(B1, n, Call("onInit", n, "-", value, "-"))
         ELSE B1

\* a bug: a repeated call installs the new configuration
ChannelOp_Reconfigure(B, n, c) ==
    IF B.ch[n].live
    THEN [B EXCEPT !.ch[n].config = c, !.ret = B.ch[n].inst]
    ELSE CreateChannel(B, n, c)

ChannelOp(B, n, c) ==
    IF B.ch[n].live
    THEN [B EXCEPT !.ret = B.ch[n].inst]
    ELSE CreateChannel(B, n, c)

---------------------------------------------------------------------------
(* EventBus.executeOnChange (event-bus.js:171-204) *)

\* a bug: a restarted timer keeps the arguments of the one it replaces
DebounceTimer_KeepsOld(pending, debounce, newValue, oldValue) ==
    [pending |-> TRUE, at |-> now + debounce, new |-> newValue,
     old |-> IF pending.pending THEN pending.old ELSE oldValue]

\* lines 185-188: clearTimeout of the pending timer, setTimeout of a new one
\* whose closure holds the arguments of this call
DebounceTimer(pending, debounce, newValue, oldValue) ==
    [pending |-> TRUE, at |-> now + debounce, new |-> newValue,
     old |-> oldValue]

\* a bug: the interval must be exceeded
ThrottleOpen_Strict(channel, throttle) ==
    now - channel.onChangeLastCall > throttle

\* lines 193-196: `channel.onChangeLastCall || 0`, timeSinceLastCall
ThrottleOpen(channel, throttle) ==
    now - channel.onChangeLastCall >= throttle

\* a bug: the hook gets its arguments in the other order
ExecuteOnChange_Swapped(B, n, newValue, oldValue) ==
    IF ~B.ch[n].config.onChange THEN B
    ELSE Invoke(B, n, Call("onChange", n, "-", oldValue, newValue))

\* a bug: the throttle option is looked at before the debounce option
ExecuteOnChange_ThrottleFirst(B, n, newValue, oldValue) ==
    LET channel == B.ch[n]
        config  == channel.config
    IN IF ~config.onChange THEN B
       ELSE IF config.throttle > 0
       THEN IF ThrottleOpen(channel, config.throttle)
            THEN Invoke([B EXCEPT !.ch[n].onChangeLastCall = now], n,
                        Call("onChange", n, "-", newValue, oldValue))
            ELSE B
       ELSE [B EXCEPT !.tm[n].deb =
                        DebounceTimer(@, config.debounce, newValue, oldValue)]

ExecuteOnChange(B, n, newValue, oldValue) ==
    LET channel == B.ch[n]
        config  == channel.config
        executeCallback(X) ==
            Invoke(X, n, Call("onChange", n, "-", newValue, oldValue))
    IN IF ~config.onChange THEN B
       ELSE IF config.debounce > 0
       THEN [B EXCEPT !.tm[n].deb =
                        DebounceTimer(@, config.debounce, newValue, oldValue)]
       ELSE IF config.throttle > 0
       THEN IF ThrottleOpen(channel, config.throttle)
            THEN executeCallback([B EXCEPT !.ch[n].onChangeLastCall = now])
            ELSE B
       ELSE executeCallback(B)

---------------------------------------------------------------------------
(* EventBus.publish (event-bus.js:112-167) *)

\* step 7: channel.subscribers.forEach(callback => callback(transformedValue))
\* a bug: the fan-out stops after the first subscriber
NotifySubscribers_FirstOnly(B, n, subs, v, log) ==
    IF subs = <<>> THEN B
    ELSE [Invoke(B, n, Call("subscriber", n, Head(subs), v, "-")) EXCEPT
                   !.ch[n].seen[Head(subs)] = IF log THEN Append(@, v) ELSE @]

\* a bug: no try/catch around the callback
RECURSIVE NotifySubscribers_Uncaught(_, _, _, _, _)
NotifySubscribers_Uncaught(B, n, subs, v, log) ==
    IF subs = <<>> THEN B
    ELSE LET cb == Head(subs)
             B1 == [Invoke(B, n, Call("subscriber", n, cb, v, "-")) EXCEPT
                             !.ch[n].seen[cb] = IF log THEN Append(@, v) ELSE @]
         IN IF Throws(cb) THEN [B1 EXCEPT !.thrown = TRUE]
            ELSE NotifySubscribers_Uncaught(B1, n, Tail(subs), v, log)

\* a bug: the subscribers are skipped once an exception was logged
RECURSIVE NotifySubscribers_UnlessLogged(_, _, _, _, _)
NotifySubscribers_UnlessLogged(B, n, subs, v, log) ==
    IF subs = <<>> \/ B.cerr THEN B
    ELSE NotifySubscribers_UnlessLogged(
            [Invoke(B, n, Call("subscriber", n, Head(subs), v, "-")) EXCEPT
               !.cerr = @ \/ Throws(Head(subs))],
            n, Tail(subs), v, log)

RECURSIVE PublishOp(_, _, _, _, _)

\* (`log`: the history of the channel object is recorded)
\* lines 159-166: an exception of a callback is caught and logged; a
\* callback that publishes runs that publish to its end before it returns,
\* and the forEach goes on with the value of its own publish
RECURSIVE NotifySubscribers(_, _, _, _, _)
NotifySubscribers(B, n, subs, v, log) ==
    IF subs = <<>> THEN B
    ELSE LET cb == Head(subs)
             B1 == [Invoke(B, n, Call("subscriber", n, cb, v, "-")) EXCEPT
                      !.ch[n].seen[cb] = IF log THEN Append(@, v) ELSE @,
                      !.cerr = @ \/ Throws(cb)]
             B2 == IF cb = Republisher /\ v = "v1"
                   THEN PublishOp(B1, n, "v2", FALSE, log)
                   ELSE B1
         IN NotifySubscribers(B2, n, Tail(subs), v, log)

\* a bug: the result of validate is ignored
Accepted_Always(config, value) == TRUE

\* 1: the validate hook lets the value pass (event-bus.js:122-128)
Accepted(config, value) ==
    config.validate = "none" \/ Validate(config.validate, value)

\* a bug: the raw value is used
Transformed_Raw(config, value) == value

\* 2: the value after the transform hook (event-bus.js:130-132)
Transformed(config, value) ==
    IF config.transform /= "none" THEN Transform(config.transform, value)
    ELSE value

\* a bug: the exception of a hook is swallowed
HookThrows_Swallowed(config, value) == FALSE

\* 1, 2: validate(value) throws, or it returns true and transform(value)
\* throws; neither call is inside a try (event-bus.js:122-132)
HookThrows(config, value) ==
    \/ config.validate = "throwsV2" /\ value = "v2"
    \/ /\ config.validate = "none" \/ Validate(config.validate, value)
       /\ config.transform = "throwsV2" /\ value = "v2"

\* a bug: isInitialized is not consulted
FirstValue_Again(channel, transformedValue) == NonAbsent(transformedValue)

\* 5: the channel holds a value for the first time (event-bus.js:143)
FirstValue(channel, transformedValue) ==
    ~channel.isInitialized /\ NonAbsent(transformedValue)

\* a bug: the value of the creating publish is dropped
ImplicitConfig_NoValue(value) == NoConfig

\* line 116: `{ initialValue: value }`
ImplicitConfig(value) == [NoConfig EXCEPT !.initialValue = value]

PublishOp(B, n, value, fails, log) ==
    IF ~B.ch[n].live
    THEN [ChannelOp(B, n, ImplicitConfig(value)) EXCEPT !.ret = 0]
    ELSE
      LET channel  == B.ch[n]
          oldValue == channel.value
          config   == channel.config
      IN
      IF HookThrows(config, value)
      THEN [B EXCEPT !.thrown = TRUE]
      ELSE IF ~Accepted(config, value)
      THEN [B EXCEPT !.warn = TRUE]
      ELSE
        LET transformedValue == Transformed(config, value)
            firstValue == FirstValue(channel, transformedValue)
            runInit    == firstValue /\ config.onInit
            \* 3, 4: signal.set, saveToStorage
            B3 == [B EXCEPT
                     !.ch[n].value = transformedValue,
                     !.ch[n].hadValue = @ \/ NonAbsent(transformedValue),
                     !.ch[n].pubs  = IF log THEN Append(@, transformedValue) ELSE @,
                     !.st   = SaveToStorage(@, storageDenied, channel.storageKey,
                                            transformedValue, channel.storage, fails),
                     !.serr = @ \/ (channel.storage /= "memory"
                                    /\ (storageDenied \/ fails))]
            \* 5: onInit on the first non-absent value
            B4 == [B3 EXCEPT
                     !.ch[n].isInitialized = @ \/ firstValue,
                     !.ch[n].nInit = IF runInit THEN @ + 1 ELSE @]
            B5 == IF runInit
                  THEN Invoke(B4, n, Call("onInit", n, "-", transformedValue, "-"))
                  ELSE B4
            \* 6: onChange
            B6 == ExecuteOnChange(B5, n, transformedValue, oldValue)
        IN NotifySubscribers(B6, n, channel.subscribers, transformedValue, log)

---------------------------------------------------------------------------
(* EventBus.clear (event-bus.js:251-280), clearAll (286-297) *)

\* The closure subscribe returns holds the channel object it was made for
\* (inst), the name and the callback.
Handle(n, chan, cb) ==
    [name |-> n, inst |-> chan.inst, cb |-> cb, autoCleanup |-> chan.autoCleanup]

\* A closure over a channel object that clear has emptied and unregistered:
\* its subscriber set stays empty, so neither the object nor the callback
\* it holds makes a difference to what calling it does.
Stale(h) == [h EXCEPT !.inst = 0, !.cb = "-"]

\* a bug: clear leaves the timers running
CancelTimers_Forgotten(tm, n) == tm

\* lines 264-271: clearTimeout of the TTL timer and of the debounce timer
CancelTimers(tm, n) == [tm EXCEPT ![n] = NoTimers]

\* a bug: the hook is not called
RunOnClear_Skipped(B, n) == B

\* lines 256-263: the onClear hook, if the configuration has one
RunOnClear(B, n) ==
    IF B.ch[n].config.onClear
    THEN Invoke(B, n, Call("onClear", n, "-", "-", "-"))
    ELSE B

ClearOp(B, n) ==
    LET channel == B.ch[n] IN
    IF ~channel.live THEN B
    ELSE [RunOnClear(B, n) EXCEPT
            !.tm    = CancelTimers(@, n),
            !.hs    = {IF h.name = n THEN Stale(h) ELSE h : h \in @},
            !.st    = RemoveFromStorage(@, storageDenied, channel.storageKey,
                                        channel.storage),
            !.serr  = @ \/ (channel.storage /= "memory" /\ storageDenied),
            !.ch[n] = NoChannel,
            !.order = SeqWithout(@, n)]

\* this.channels.forEach(...) over the entries in insertion order; `mode` is
\* the storageOnly argument, "" when it is not given
\* a bug: the argument is ignored
RECURSIVE ClearEach_All(_, _, _)
ClearEach_All(B, names, mode) ==
    IF names = <<>> THEN B
    ELSE ClearEach_All(ClearOp(B, Head(names)), Tail(names), mode)

RECURSIVE ClearEach(_, _, _)
ClearEach(B, names, mode) ==
    IF names = <<>> THEN B
    ELSE LET n == Head(names) IN
         ClearEach(IF mode = "" \/ B.ch[n].storage = mode
                   THEN ClearOp(B, n) ELSE B,
                   Tail(names), mode)

ClearAllOp(B, mode) == ClearEach(B, B.order, mode)

---------------------------------------------------------------------------
(* EventBus.subscribe (event-bus.js:212-227) *)

SubscribeOp(B, n, cb) ==
    LET B1      == IF ~B.ch[n].live THEN ChannelOp(B, n, NoConfig) ELSE B
        channel == B1.ch[n]
    IN IF InSeq(channel.subscribers, cb)
       THEN [B1 EXCEPT !.hs  = @ \cup {Handle(n, channel, cb)},
                       !.ret = channel.inst]      \* Set.add of a member
       ELSE [B1 EXCEPT !.hs  = @ \cup {Handle(n, channel, cb)},
                       !.ch[n].subscribers = Append(@, cb),
                       !.ch[n].seen[cb]    = <<>>,
                       !.ch[n].subAt[cb]   = Len(channel.pubs),
                       !.ret               = channel.inst]

\* Calling the closure (event-bus.js:220-226).  A channel object that was
\* cleared has an empty subscriber set and is in the registry no more.
UnsubscribeOp(B, h) ==
    LET n       == h.name
        current == B.ch[n].live /\ B.ch[n].inst = h.inst
        left    == IF current THEN SeqWithout(B.ch[n].subscribers, h.cb)
                   ELSE <<>>
        B1      == IF current THEN [B EXCEPT !.ch[n].subscribers = left]
                   ELSE B
    IN IF h.autoCleanup /\ Len(left) = 0 THEN ClearOp(B1, n) ELSE B1

---------------------------------------------------------------------------
(* Timers: the TTL timer of channel (event-bus.js:84-88) and the debounce   *)
(* timer of executeOnChange (event-bus.js:188)                             *)

\* a bug: the TTL timer fires and clears nothing
TtlExpireOp_NoClear(B, n) == [B EXCEPT !.tm[n].ttl = NoTimer]

TtlExpireOp(B, n) == ClearOp([B EXCEPT !.tm[n].ttl = NoTimer], n)

DebounceFireOp(B, n) ==
    LET t == B.tm[n].deb IN
    Invoke([B EXCEPT !.tm[n].deb = NoTimer], n,
           Call("onChange", n, "-", t.new, t.old))

\* A timer that is due: setTimeout's callback is run when its time has come
Due(t) == t.pending /\ t.at <= now

ListenerTimerDue == \E r \in RegIds : Due(regs[r].debounceTimer)

TimerDue ==
    \/ \E n \in Names : Due(timers[n].ttl) \/ Due(timers[n].deb)
    \/ ListenerTimerDue
    \/ Due(loadController.timeout)

---------------------------------------------------------------------------
(* Introspection (event-bus.js:234-245, 304-323) *)

GetValue(n)  == IF channels[n].live THEN channels[n].value ELSE Undefined
GetSignal(n) == IF channels[n].live THEN channels[n].inst ELSE 0
ListChannels == chanOrder
SubscribersCount(n) == Len(channels[n].subscribers)

---------------------------------------------------------------------------
(* Configurations the callers pass *)

Hooked(c, on) == [c EXCEPT !.onChange = on, !.onInit = on, !.onClear = on]

\* storage, validation, transformation and hooks, without timers
\* every option given: validate, transform, the three hooks, autoCleanup
Full(iv, m) ==
    Hooked([NoConfig EXCEPT !.initialValue = iv, !.storage = m,
                            !.autoCleanup = TRUE, !.validate = "notV2",
                            !.transform = "swap"], TRUE)

\* storage, validation, transformation and hooks, without timers: every
\* option given, or all but one
ConfigsPlain ==
    { Full(iv, m) : iv \in {Undefined, "v1"}, m \in Modes } \cup
    { [Full(Undefined, "session") EXCEPT !.validate = "none"],
      [Full(Undefined, "session") EXCEPT !.transform = "none"],
      [Full(Undefined, "session") EXCEPT !.autoCleanup = FALSE],
      Hooked(Full(Undefined, "session"), FALSE) }

\* onChange debounced or throttled (or both), and channels with a TTL
ConfigsTimed ==
    { [Full(iv, "session") EXCEPT !.debounce = Debounce, !.ttl = tt] :
        iv \in {Undefined, "v1"}, tt \in {0, Ttl} } \cup
    { [Full("v1", "memory") EXCEPT !.throttle = Throttle],
      [Full("v1", "memory") EXCEPT !.debounce = Debounce,
                                   !.throttle = Throttle] }

\* a counter as in the end-to-end scenario, and a channel with every option
ConfigsSeq == { [NoConfig EXCEPT !.initialValue = "v1"],
                Full(Undefined, "session") }

---------------------------------------------------------------------------
(* Instant events *)

\* What a listener function does when it is invoked: return, throw, or
\* (the first time it is invoked) emit its own event and return
Listeners == {"ok", "throws", "reemit"}

NoOptions ==
    [once |-> FALSE, debounce |-> 0, throttle |-> 0, validate |-> "none",
     transform |-> "none"]

NoEvTimer == [pending |-> FALSE, at |-> 0, data |-> "-"]

\* The closure of one on() call; set is the Set object its unlisten holds,
\* callCount whether the listener of a once registration was invoked
\* never, once or more than once so far (history)
NoReg ==
    [used |-> FALSE, name |-> "-", set |-> 0, listener |-> "-",
     options |-> NoOptions, debounceTimer |-> NoEvTimer, lastCallTime |-> 0,
     hasExecuted |-> FALSE, callCount |-> 0]

\* The event registry as a handler sees and changes it
Ev ==
    [el |-> eventListeners, ls |-> listenerSets, rg |-> regs, calls |-> <<>>,
     reads |-> <<>>,
     warn |-> FALSE, serr |-> FALSE, cerr |-> FALSE,
      thrown |-> FALSE, ret |-> 0]

\* a bug: the pending debounced invocation is not cancelled
UnlistenOp_KeepsTimer(E, r) ==
    LET reg  == E.rg[r]
        left == SeqWithout(E.ls[reg.set], r)
    IN [E EXCEPT !.ls[reg.set] = left,
                 !.el[reg.name] = IF left = <<>> THEN 0 ELSE @]

\* a bug: the entry of the name is left with its empty Set
UnlistenOp_LeavesEntry(E, r) ==
    LET reg == E.rg[r]
    IN [E EXCEPT !.rg[r].debounceTimer = NoEvTimer,
                 !.ls[reg.set] = SeqWithout(@, r)]

\* unlisten (event-bus.js:436-444)
UnlistenOp(E, r) ==
    LET reg  == E.rg[r]
        left == SeqWithout(E.ls[reg.set], r)
    IN [E EXCEPT !.rg[r].debounceTimer = NoEvTimer,
                 !.ls[reg.set] = left,
                 !.el[reg.name] = IF left = <<>> THEN 0 ELSE @]

RECURSIVE EmitOp(_, _, _)
RECURSIVE ForEachListener(_, _, _, _)
RECURSIVE WrappedListener(_, _, _)
RECURSIVE ExecuteListener(_, _, _)

\* executeListener (event-bus.js:400-412)
ExecuteListener(E, r, transformedData) ==
    LET reg == E.rg[r]
        E1  == [E EXCEPT !.rg[r].callCount = IF reg.options.once /\ @ < 2
                                              THEN @ + 1 ELSE @,
                         !.calls = Append(@, Call("listener", reg.name,
                                                  RegName(r), transformedData, "-"))]
        E2  == IF reg.listener = "reemit" /\ reg.callCount = 0
               THEN EmitOp(E1, reg.name, transformedData)
               ELSE E1
        E3  == [E2 EXCEPT !.rg[r].hasExecuted = TRUE]
    IN IF reg.listener = "throws" THEN [E1 EXCEPT !.cerr = TRUE]
       ELSE IF reg.options.once THEN UnlistenOp(E3, r) ELSE E3

\* a bug: the validate option is not consulted
WrappedListener_Unfiltered(E, r, data) ==
    LET reg == E.rg[r]
        o   == reg.options
        transformedData ==
            IF o.transform /= "none" THEN Transform(o.transform, data) ELSE data
    IN IF o.once /\ reg.hasExecuted THEN E
       ELSE ExecuteListener(E, r, transformedData)

\* wrappedListener (event-bus.js:391-432)
WrappedListener(E, r, data) ==
    LET reg == E.rg[r]
        o   == reg.options
        transformedData ==
            IF o.transform /= "none" THEN Transform(o.transform, data) ELSE data
    IN IF o.once /\ reg.hasExecuted THEN E
       ELSE IF o.validate /= "none" /\ ~Validate(o.validate, data) THEN E
       ELSE IF o.debounce > 0
            THEN [E EXCEPT !.rg[r].debounceTimer =
                     [pending |-> TRUE, at |-> now + o.debounce,
                      data |-> transformedData]]
       ELSE IF o.throttle > 0
            THEN IF now - reg.lastCallTime >= o.throttle
                 THEN ExecuteListener([E EXCEPT !.rg[r].lastCallTime = now],
                                      r, transformedData)
                 ELSE E
       ELSE ExecuteListener(E, r, transformedData)

\* a bug: the exception of a listener ends the forEach and reaches the
\* caller of emit
ForEachListener_Uncaught(E, sid, visited, data) ==
    LET todo == SelectSeq(E.ls[sid], LAMBDA r : r \notin visited)
        E1   == WrappedListener(E, todo[1], data)
    IN IF todo = <<>> THEN E
       ELSE IF E1.cerr /\ ~E.cerr THEN [E1 EXCEPT !.thrown = TRUE]
       ELSE ForEachListener(E1, sid, visited \cup {todo[1]}, data)

\* listeners.forEach (event-bus.js:350-357): the entries of the Set object
\* in insertion order, an entry deleted before its turn is skipped
ForEachListener(E, sid, visited, data) ==
    LET todo == SelectSeq(E.ls[sid], LAMBDA r : r \notin visited)
    IN IF todo = <<>> THEN E
       ELSE ForEachListener(WrappedListener(E, todo[1], data), sid,
                            visited \cup {todo[1]}, data)

\* emit (event-bus.js:345-358)
EmitOp(E, name, data) ==
    LET sid == E.el[name]
    IN IF sid = 0 \/ E.ls[sid] = <<>> THEN E
       ELSE ForEachListener(E, sid, {}, data)

\* on (event-bus.js:383-446); r is the new closure, and names the Set
\* object when the call creates one
OnOp(E, r, name, listener, options) ==
    LET sid == IF E.el[name] = 0 THEN r ELSE E.el[name]
    IN [E EXCEPT !.el[name] = sid,
                 !.ls[sid] = Append(IF E.el[name] = 0 THEN <<>> ELSE @, r),
                 !.rg[r] = [NoReg EXCEPT !.used = TRUE, !.name = name,
                                         !.set = sid, !.listener = listener,
                                         !.options = options],
                 !.ret = r]

\* once (event-bus.js:456-458)
OnceOp(E, r, name, listener) ==
    OnOp(E, r, name, listener, [NoOptions EXCEPT !.once = TRUE])

\* a bug: off leaves the entry
OffOp_Noop(E, name) == E

\* off (event-bus.js:464-466)
OffOp(E, name) == [E EXCEPT !.el[name] = 0]

\* the debounce timer of a wrapped listener fires (event-bus.js:417)
ListenerTimerOp(E, r) ==
    ExecuteListener([E EXCEPT !.rg[r].debounceTimer = NoEvTimer], r,
                    E.rg[r].debounceTimer.data)

---------------------------------------------------------------------------
(* The decorator @conditional (decorators/conditional.js) *)

\* the instances of the component class whose getter is decorated
Instances == {"a", "b"}

\* the values the instances hold in the property named by conditionKey
Conditions == {"true", "false", Undefined, "", "v1"}

\* `if (condition)`: false, undefined, null, the empty string are falsy
Truthy(v) == v \notin {"false", Undefined, Null, ""}

\* a component instance before anything was assigned or added
NoHost == [condition |-> Undefined, controllers |-> 0]

\* `let controller;` (conditional.js:48)
NoController == [host |-> "-"]

\* the empty template the controller returns without placeholder (:21)
EmptyTemplate == "empty template"

\* what the original getter of an instance returns
Content(i) == "content of " \o i

\* the templates given as placeholder
Placeholders == {Undefined, "loading"}

\* ConditionalController.render (conditional.js:16-22)
Render(H, c, ph, content) ==
    IF Truthy(H[c.host].condition) THEN content
    ELSE IF Truthy(ph) THEN ph ELSE EmptyTemplate

\* the getter the decorator installs (conditional.js:49-54), read on
\* instance i; the constructor of the controller adds it to its host (:11)
ConditionalGet(H, c, ph, i) ==
    LET fresh == c = NoController
        c1    == IF fresh THEN [host |-> i] ELSE c
        H1    == IF fresh THEN [H EXCEPT ![i].controllers = @ + 1] ELSE H
    IN [hosts |-> H1, controller |-> c1, ret |-> Render(H1, c1, ph, Content(i))]

---------------------------------------------------------------------------
(* The decorators @lazy, @defer (decorators/lazy.js) and @delay: one       *)
(* element with one decorated getter.  Lit calls hostConnected of every    *)
(* controller when the element is connected, hostDisconnected when it is   *)
(* disconnected, and addController calls hostConnected at once when the    *)
(* element is connected already.                                           *)

\* the ms of @delay(ms) and of @defer({delay})
DelayMs == 1

\* the element: data is what its original getter reads; connectedAt is
\* the time it was connected first (history, 0: never)
NoElement == [connected |-> FALSE, data |-> "v1", connectedAt |-> 0]

\* the decorated getter before the decorator is applied and before its
\* controller exists (constructors: lazy.js:6-24, 123-134, @delay 5-16).
\* timeout: the timer of setTimeout; microtask: Promise.resolve().then is
\* pending; frame: the requestAnimationFrame callback is pending;
\* observing: this.observer observes the placeholder element; inflight:
\* calls of load that wait for the loader; loaderStarts, evaluations: how
\* often the loader and the original getter were called (history)
NoLoadController ==
    [kind |-> "none", delay |-> 0, loader |-> FALSE, placeholder |-> Undefined,
     created |-> FALSE, isLoaded |-> FALSE, cachedValue |-> Null,
     timeout |-> NoTimer, microtask |-> FALSE, frame |-> FALSE,
     observing |-> FALSE, inflight |-> 0, loaderStarts |-> 0,
     evaluations |-> 0]

\* The element and its controller as a handler sees and changes them
Widget ==
    [el |-> element, c |-> loadController, calls |-> <<>>, cerr |-> FALSE,
     ret |-> "-"]

\* the end of load, after the loader if there is one (lazy.js:56-59 and
\* 63-66, 158-160 and 164-166, @delay 33-35 and 39-41); rejected: the
\* loader's promise was rejected, which the catch block logs
FinishLoad(W, rejected) ==
    [W EXCEPT !.c.isLoaded    = TRUE,
              !.c.cachedValue = Content(W.el.data),
              !.c.evaluations = @ + 1,
              !.c.observing   = IF W.c.kind = "lazy" THEN FALSE ELSE @,
              !.calls = @ \o <<Call("originalGetter", W.c.kind, "-", "-", "-"),
                               Call("requestUpdate", W.c.kind, "-", "-", "-")>>,
              !.cerr  = @ \/ rejected]

\* load up to its await (lazy.js:48-55, 150-157, @delay 25-32)
Load(W) ==
    IF W.c.isLoaded THEN W
    ELSE IF W.c.loader
    THEN [W EXCEPT !.c.inflight = @ + 1, !.c.loaderStarts = @ + 1,
                   !.calls = Append(@, Call("loader", W.c.kind, "-", "-", "-"))]
    ELSE FinishLoad(W, FALSE)

\* hostConnected (lazy.js:25-44, 135-144, @delay 17-19)
HostConnected(W) ==
    CASE W.c.kind = "lazy" ->
           [W EXCEPT !.c.observing = FALSE, !.c.frame = TRUE]
      [] W.c.kind = "defer" /\ W.c.delay = 0 ->
           [W EXCEPT !.c.microtask = TRUE]
      [] OTHER ->
           [W EXCEPT !.c.timeout = [NoTimer EXCEPT !.pending = TRUE,
                                                   !.at = now + W.c.delay]]

\* hostDisconnected (lazy.js:45-47, 145-149, @delay 20-24)
HostDisconnected(W) ==
    IF W.c.kind = "lazy" THEN [W EXCEPT !.c.observing = FALSE]
    ELSE [W EXCEPT !.c.timeout = NoTimer]

\* getValue (lazy.js:69-81, 169-175, @delay 44-49); @lazy wraps its
\* placeholder in an element that carries data-lazy
ControllerGetValue(W) ==
    IF W.c.isLoaded THEN W.c.cachedValue
    ELSE IF W.c.kind = "lazy" THEN "data-lazy element"
    ELSE IF W.c.placeholder = Undefined THEN Null ELSE W.c.placeholder

\* the decorated getter (lazy.js:109-114, 206-211, @delay 76-81)
LoadGet(W) ==
    LET W1 == IF W.c.created THEN W
              ELSE IF W.el.connected
                   THEN HostConnected([W EXCEPT !.c.created = TRUE])
                   ELSE [W EXCEPT !.c.created = TRUE]
    IN [W1 EXCEPT !.ret = ControllerGetValue(W1)]

---------------------------------------------------------------------------
(* lithium-router (lithium-router.js) and LithiumElement.navigate *)

\* window.location.pathname of the pages of the application
Paths == {"/", "/a", "/b"}

\* an absolute URL of the application, as navigate() also accepts
AbsoluteA == "http://app/a"

\* what navigate() is called with (/b is where the guard redirects to)
NavPaths == {"/", "/a", AbsoluteA}

\* `path.startsWith('http') ? new URL(path).pathname : path` (:50-52), and
\* `new URL(url).pathname` of the URL performNavigation builds (:82-92)
Pathname(path) == IF path = AbsoluteA THEN "/a" ELSE path

\* what the promise of beforeRoute settles with: a boolean, an object
\* {continue, redirect}, undefined (a guard that returns nothing), or a
\* rejection
Settled(kind, continue, redirect) ==
    [kind |-> kind, continue |-> continue, redirect |-> redirect]

Results ==
    { Settled("boolean", b, Undefined) : b \in BOOLEAN } \cup
    { Settled("object", b, t) : b \in BOOLEAN, t \in {Undefined, "/b"} } \cup
    { Settled("undefined", FALSE, Undefined),
      Settled("rejected", FALSE, Undefined) }

\* parseResult (:173-181); reading result.continue of undefined throws
ParseResult(result) ==
    IF result.kind = "boolean"
    THEN [threw |-> FALSE, canAccess |-> result.continue, redirectTo |-> Undefined]
    ELSE IF result.kind = "object"
    THEN [threw |-> FALSE, canAccess |-> result.continue,
          redirectTo |-> result.redirect]
    ELSE [threw |-> TRUE, canAccess |-> FALSE, redirectTo |-> Undefined]

\* the element before it is connected (constructor, :24-27); listening: the
\* listener of 'lithium:navigate' is registered with the EventBus (:33-35,
\* :42); observing: the MutationObserver is connected (:128-134, :41)
NoRouter ==
    [connected |-> FALSE, currentPath |-> "", beforeRoute |-> FALSE,
     listening |-> FALSE, observing |-> FALSE]

\* The page as a handler of the router sees and changes it
Page ==
    [loc |-> location, hist |-> history, rt |-> router,
     pend |-> pendingGuards,
     n |-> guardCalls, calls |-> <<>>, cerr |-> FALSE]

\* `await this.beforeRoute(path)`: the guard is called, the rest of the
\* async function waits for its promise
Await(R, kind, path, replace) ==
    [R EXCEPT !.n = @ + 1,
              !.pend = @ \cup {[id |-> R.n + 1, kind |-> kind, path |-> path,
                                replace |-> replace]},
              !.calls = Append(@, Call("beforeRoute", path, "-", "-", "-"))]

\* checkUrlChange up to its await (:141-146, :164-167)
CheckUrlChange(R) ==
    LET newPath == R.loc
    IN IF newPath = R.rt.currentPath THEN R
       ELSE IF R.rt.beforeRoute THEN Await(R, "urlchange", newPath, FALSE)
       ELSE [R EXCEPT !.rt.currentPath = newPath]

\* window.history.replaceState / pushState (:85-90)
PushOrReplace(hist, replace, path) ==
    IF replace THEN [hist EXCEPT ![Len(hist)] = path] ELSE Append(hist, path)

\* performNavigation (:81-95); the popstate event it dispatches runs
\* checkUrlChange (:136)
PerformNavigation(R, path, replace) ==
    LET p == Pathname(path)
    IN CheckUrlChange([R EXCEPT !.hist = PushOrReplace(@, replace, p),
                                !.loc = p,
                                !.rt.currentPath = p])

\* `window.location.href = target`: the browser loads the target; the page
\* with its elements and its pending promises is gone
Reload(R, target) ==
    [R EXCEPT !.hist = Append(@, target), !.loc = target, !.rt = NoRouter,
              !.pend = {}]

\* a bug: the guard is not asked
HandleNavigate_Unguarded(R, path, replace) ==
    PerformNavigation(R, Pathname(path), replace)

\* handleNavigate up to its await (:47-55, :73-76)
HandleNavigate(R, path, replace) ==
    LET targetPath == Pathname(path)
    IN IF R.rt.beforeRoute THEN Await(R, "navigate", targetPath, replace)
       ELSE PerformNavigation(R, targetPath, replace)

\* LithiumElement.navigate (lithium-element.js:58-67): the event reaches
\* the router while its listener is registered
NavigateOp(R, path, replace) ==
    IF R.rt.listening THEN HandleNavigate(R, path, replace) ELSE R

\* handleNavigate after its await (:56-71)
NavigateSettled(R, p, result) ==
    LET parsed == ParseResult(result)
        logged == [R EXCEPT !.cerr = TRUE]
    IN IF result.kind = "rejected" \/ parsed.threw THEN logged
       ELSE IF ~parsed.canAccess
       THEN IF parsed.redirectTo /= Undefined
            THEN PerformNavigation(R, parsed.redirectTo, p.replace)
            ELSE R
       ELSE PerformNavigation(R, p.path, p.replace)

\* checkInitialRoute up to its await (:99-103, :119-121)
CheckInitialRoute(R) ==
    LET initialPath == R.loc
    IN IF R.rt.beforeRoute /\ initialPath /= "/"
       THEN Await(R, "initial", initialPath, FALSE)
       ELSE [R EXCEPT !.rt.currentPath = initialPath]

\* checkInitialRoute after its await (:104-117)
InitialSettled(R, p, result) ==
    LET parsed == ParseResult(result)
    IN IF result.kind = "rejected" \/ parsed.threw
       THEN Reload([R EXCEPT !.cerr = TRUE], "/")
       ELSE IF ~parsed.canAccess
       THEN Reload(R, IF parsed.redirectTo /= Undefined
                      THEN parsed.redirectTo ELSE "/")
       ELSE [R EXCEPT !.rt.currentPath = p.path]

\* checkUrlChange after its await (:147-162)
UrlChangeSettled(R, p, result) ==
    LET parsed == ParseResult(result)
    IN IF result.kind = "rejected" \/ parsed.threw
       THEN CheckUrlChange([R EXCEPT !.cerr = TRUE,
                                     !.hist = Append(@, R.rt.currentPath),
                                     !.loc = R.rt.currentPath])
       ELSE IF ~parsed.canAccess
       THEN Reload(R, IF parsed.redirectTo /= Undefined
                      THEN parsed.redirectTo ELSE R.rt.currentPath)
       ELSE [R EXCEPT !.rt.currentPath = p.path]

\* connectedCallback (:28-38)
ConnectedCallback(R) ==
    CheckInitialRoute([R EXCEPT !.rt.connected = TRUE,
                                !.rt.currentPath = R.loc,
                                !.rt.observing = TRUE,
                                !.rt.listening = TRUE])

\* disconnectedCallback (:39-43)
DisconnectedCallback(R) ==
    [R EXCEPT !.rt.connected = FALSE, !.rt.observing = FALSE,
              !.rt.listening = FALSE]

---------------------------------------------------------------------------
(* The state machine *)

\* op, name, arg: the handler, the channel name and the value published
\* (for clear: the storage mode of the channel it cleared; for clearAll:
\* its argument);
\* calls: the hooks, subscribers and listeners the handler invoked, in
\* order; cerr: console.error of an exception of one of them; thrown: an
\* exception reached the caller of the handler;
\* warn, serr: console.warn of a refused value, console.error of a
\* storage failure; ret: the signal (channel object) returned;
\* reads: what getValue of the channel returned to each of the calls
Out(op, n, v, B) ==
    [op |-> op, name |-> n, arg |-> v, calls |-> B.calls, reads |-> B.reads,
     warn |-> B.warn, serr |-> B.serr, cerr |-> B.cerr, thrown |-> B.thrown,
     ret |-> B.ret]

\* the handler leaves the bus as B; the history of subscribe calls is
\* left to the action
ApplyBus(op, n, v, B) ==
    /\ channels'  = B.ch
    /\ chanOrder' = B.order
    /\ created'   = B.created
    /\ store'     = B.st
    /\ timers'    = B.tm
    /\ handles'   = B.hs
    /\ out'       = Out(op, n, v, B)
    /\ UNCHANGED evVars
    /\ UNCHANGED uiVars

Apply(op, n, v, B) == ApplyBus(op, n, v, B) /\ UNCHANGED subscriptions

EmptyStore == [m \in {"session", "persistent"} |-> [k \in Keys |-> NoItem]]

\* What an earlier page may have left in the stores: nothing, a value, a
\* malformed text
Leftovers ==
    {EmptyStore} \cup
    { [EmptyStore EXCEPT ![e[1]][k] = e[2]] :
        k \in {DefaultKey(n) : n \in OneName},
        e \in {<<"session", "2">>, <<"session", "{bad">>,
                <<"persistent", "null">>} }

InitBus ==
    /\ channels  = [n \in Names |-> NoChannel]
    /\ chanOrder = <<>>
    /\ created   = [n \in Names |-> 0]
    /\ now       = StartTime
    /\ timers    = [n \in Names |-> NoTimers]
    /\ handles   = {}
    /\ subscriptions  = [cb \in Callbacks |-> NoSubscription]
    /\ eventListeners = [e \in EventNames |-> 0]
    /\ listenerSets   = [i \in RegIds |-> <<>>]
    /\ regs           = [r \in RegIds |-> NoReg]
    /\ hosts          = [i \in Instances |-> NoHost]
    /\ controller     = NoController
    /\ placeholder    = Undefined
    /\ element        = NoElement
    /\ loadController = NoLoadController
    /\ location       = "/"
    /\ history        = <<"/">>
    /\ router         = NoRouter
    /\ pendingGuards  = {}
    /\ guardCalls     = 0
    /\ out       = [op |-> "init", name |-> "-", arg |-> "-", calls |-> <<>>,
                    reads |-> <<>>,
                    warn |-> FALSE, serr |-> FALSE, cerr |-> FALSE,
      thrown |-> FALSE, ret |-> 0]

Init ==
    /\ InitBus
    /\ storageDenied \in BOOLEAN
    /\ store \in (IF storageDenied THEN {EmptyStore} ELSE Leftovers)

\* a fresh page with working, empty stores
InitFresh ==
    /\ InitBus
    /\ storageDenied = FALSE
    /\ store = EmptyStore

CanCreate(n) == channels[n].live \/ created[n] < MaxInst

Channel(n, c) ==
    /\ CanCreate(n)
    /\ LET B == ChannelOp(Bus, n, c) IN
       Apply("channel", n, "-", B)
    /\ UNCHANGED <<storageDenied, now>>

Publish(n, v, log) ==
    /\ CanCreate(n)
    /\ log /\ channels[n].live => Len(channels[n].pubs) < MaxPub
    /\ \E fails \in BOOLEAN :
         /\ fails => channels[n].live /\ channels[n].storage /= "memory"
                     /\ ~storageDenied
         /\ LET B == PublishOp(Bus, n, v, fails, log) IN
            Apply("publish", n, v, B)
    /\ UNCHANGED <<storageDenied, now>>

Subscribe(n, cb) ==
    /\ CanCreate(n)
    /\ LET B == SubscribeOp(Bus, n, cb) IN
       Apply("subscribe", n, "-", B)
    /\ UNCHANGED <<storageDenied, now>>

Unsubscribe(h) ==
    /\ LET B == UnsubscribeOp(Bus, h) IN
       Apply("unsubscribe", h.name, "-", B)
    /\ UNCHANGED <<storageDenied, now>>

\* subscribe and the call of a handle, with the subscribe calls counted
SubscribeCounted(n, cb) ==
    /\ CanCreate(n)
    /\ LET B == SubscribeOp(Bus, n, cb)
           s == subscriptions[cb]
       IN /\ s.inst = B.ret => s.count < 2
          /\ ApplyBus("subscribe", n, "-", B)
          /\ subscriptions' =
                [subscriptions EXCEPT ![cb] =
                   [inst |-> B.ret,
                    count |-> IF s.inst = B.ret THEN s.count + 1 ELSE 1]]
    /\ UNCHANGED <<storageDenied, now>>

UnsubscribeCounted(h) ==
    /\ LET B == UnsubscribeOp(Bus, h) IN
       ApplyBus("unsubscribe", h.name, "-", B)
    /\ subscriptions' =
          [cb \in Callbacks |->
             IF cb = h.cb /\ subscriptions[cb].inst = h.inst
             THEN [subscriptions[cb] EXCEPT !.count = 0]
             ELSE subscriptions[cb]]
    /\ UNCHANGED <<storageDenied, now>>

Clear(n) ==
    /\ LET B == ClearOp(Bus, n) IN
       Apply("clear", n,
             IF channels[n].live THEN channels[n].storage ELSE "-", B)
    /\ UNCHANGED <<storageDenied, now>>

ClearAll(mode) ==
    /\ LET B == ClearAllOp(Bus, mode) IN
       Apply("clearAll", "-", mode, B)
    /\ UNCHANGED <<storageDenied, now>>

TtlExpire(n) ==
    /\ Due(timers[n].ttl)
    /\ LET B == TtlExpireOp(Bus, n) IN
       Apply("ttl", n, "-", B)
    /\ UNCHANGED <<storageDenied, now>>

DebounceFire(n) ==
    /\ Due(timers[n].deb)
    /\ LET B == DebounceFireOp(Bus, n) IN
       Apply("debounce", n, "-", B)
    /\ UNCHANGED <<storageDenied, now>>

\* Time passes while no handler runs and no timer is due
Tick ==
    /\ now < StartTime + MaxTime
    /\ ~TimerDue
    /\ now' = now + 1
    /\ out' = Out("tick", "-", "-", Bus)
    /\ UNCHANGED <<channels, chanOrder, created, store, storageDenied, timers,
                   handles, subscriptions>>
    /\ UNCHANGED evVars
    /\ UNCHANGED uiVars

ApplyEv(op, n, v, E) ==
    /\ eventListeners' = E.el
    /\ listenerSets'   = E.ls
    /\ regs'           = E.rg
    /\ out'            = Out(op, n, v, E)
    /\ UNCHANGED <<channels, chanOrder, created, store, storageDenied, now,
                   timers, handles, subscriptions>>
    /\ UNCHANGED uiVars

NextReg == CHOOSE r \in RegIds : ~regs[r].used /\ \A q \in 1..(r - 1) : regs[q].used

On(name, listener, options) ==
    /\ \E r \in RegIds : ~regs[r].used
    /\ ApplyEv("on", name, "-", OnOp(Ev, NextReg, name, listener, options))

Once(name, listener) ==
    /\ \E r \in RegIds : ~regs[r].used
    /\ ApplyEv("once", name, "-", OnceOp(Ev, NextReg, name, listener))

Emit(name, data) ==
    /\ ApplyEv("emit", name, data, EmitOp(Ev, name, data))

Unlisten(r) ==
    /\ regs[r].used
    /\ ApplyEv("unlisten", regs[r].name, "-", UnlistenOp(Ev, r))

Off(name) ==
    /\ ApplyEv("off", name, "-", OffOp(Ev, name))

ListenerTimer(r) ==
    /\ Due(regs[r].debounceTimer)
    /\ ApplyEv("listenerTimer", regs[r].name, "-", ListenerTimerOp(Ev, r))

Next ==
    \/ \E n \in OneName, c \in ConfigsPlain : Channel(n, c)
    \/ \E n \in OneName, v \in Val : Publish(n, v, FALSE)
    \/ \E n \in OneName, cb \in Callbacks : Subscribe(n, cb)
    \/ \E h \in handles : Unsubscribe(h)
    \/ \E n \in OneName : Clear(n)
    \/ \E mode \in Modes \cup {""} : ClearAll(mode)

Spec == Init /\ [][Next]_vars

\* The same handlers on channels with timers, and time passing
NextTimed ==
    \/ \E n \in OneName, c \in ConfigsTimed : Channel(n, c)
    \/ \E n \in OneName, v \in Val \ {Undefined} : Publish(n, v, FALSE)
    \/ \E n \in OneName, cb \in Callbacks : Subscribe(n, cb)
    \/ \E h \in handles : Unsubscribe(h)
    \/ \E n \in OneName : Clear(n)
    \/ \E n \in OneName : TtlExpire(n)
    \/ \E n \in OneName : DebounceFire(n)
    \/ Tick

SpecTimed == InitFresh /\ [][NextTimed]_vars

\* The handlers with the history of every channel object recorded: the
\* values its accepted publishes stored (pubs) and the values each
\* subscriber received since it subscribed (seen)
NextSeq ==
    \/ \E n \in OneName, c \in ConfigsSeq : Channel(n, c)
    \/ \E n \in OneName, v \in {"v1", "v2"} : Publish(n, v, TRUE)
    \/ \E n \in OneName, cb \in Callbacks : Subscribe(n, cb)
    \/ \E h \in handles : Unsubscribe(h)
    \/ \E n \in OneName : Clear(n)

SpecSeq == InitFresh /\ [][NextSeq]_vars

\* The event names, listeners and options on() is called with: without
\* timers
OnCalls ==
    { <<"ping", "ok", NoOptions>>,
      <<"pong", "ok", NoOptions>>,
      <<"ping", "throws", NoOptions>>,
      <<"ping", "ok", [NoOptions EXCEPT !.validate = "notV2",
                                        !.transform = "swap"]>> }

\* The instant events
NextEvents ==
    \/ \E c \in OnCalls : On(c[1], c[2], c[3])
    \/ \E l \in Listeners : Once("ping", l)
    \/ \E e \in EventNames, d \in {"v1", "v2"} : Emit(e, d)
    \/ \E r \in RegIds : Unlisten(r)
    \/ \E e \in EventNames : Off(e)

SpecEvents == InitFresh /\ [][NextEvents]_vars

\* ... with debounce and throttle
OnCallsTimed ==
    { <<"ping", "throws", NoOptions>>,
      <<"ping", "ok", [NoOptions EXCEPT !.validate = "notV2",
                                        !.transform = "swap"]>>,
      <<"ping", "ok", [NoOptions EXCEPT !.debounce = Debounce]>>,
      <<"ping", "ok", [NoOptions EXCEPT !.throttle = Throttle]>> }

\* The instant events with timers, and time passing
NextEventsTimed ==
    \/ \E c \in OnCallsTimed : On(c[1], c[2], c[3])
    \/ \E d \in {"v1", "v2"} : Emit("ping", d)
    \/ \E r \in RegIds : Unlisten(r)
    \/ Off("ping")
    \/ \E r \in RegIds : ListenerTimer(r)
    \/ Tick

SpecEventsTimed == InitFresh /\ [][NextEventsTimed]_vars

\* The handlers other than publish, on a page whose stores may hold
\* leftovers: what a name holds that was never published to
NextUnpublished ==
    \/ \E n \in OneName, c \in ConfigsPlain : Channel(n, c)
    \/ \E n \in OneName, cb \in Callbacks : Subscribe(n, cb)
    \/ \E h \in handles : Unsubscribe(h)
    \/ \E n \in OneName : Clear(n)
    \/ \E mode \in Modes \cup {""} : ClearAll(mode)

SpecUnpublished == Init /\ [][NextUnpublished]_vars

\* Channels of every storage mode, with a hook, and one with timers
ConfigsModes ==
    { [NoConfig EXCEPT !.storage = m, !.onClear = TRUE] : m \in Modes }
    \cup { [NoConfig EXCEPT !.storage = "session", !.ttl = Ttl,
                             !.onChange = TRUE, !.debounce = Debounce] }

\* Two names: what clearAll does to each channel
NextClearAll ==
    \/ \E n \in Names, c \in ConfigsModes : Channel(n, c)
    \/ \E n \in Names : Publish(n, "v1", FALSE)
    \/ \E n \in Names : Subscribe(n, "s2")
    \/ \E mode \in Modes \cup {""} : ClearAll(mode)

SpecClearAll == InitFresh /\ [][NextClearAll]_vars

\* A channel with a TTL, a debounced onChange and an onClear hook
ConfigCancel ==
    [NoConfig EXCEPT !.initialValue = "v1", !.ttl = Ttl, !.onChange = TRUE,
                     !.debounce = Debounce, !.onClear = TRUE]

\* A debounced listener
OnCallsCancel ==
    { <<"ping", "ok", [NoOptions EXCEPT !.debounce = Debounce]>> }

\* Every timer of the bus: the TTL and the debounced onChange of a channel,
\* the debounced invocation of a listener; clear and unlisten; time passing
NextCancel ==
    \/ \E n \in OneName : Channel(n, ConfigCancel)
    \/ \E n \in OneName : Publish(n, "v2", FALSE)
    \/ \E n \in OneName : Clear(n)
    \/ \E n \in OneName : TtlExpire(n)
    \/ \E n \in OneName : DebounceFire(n)
    \/ \E c \in OnCallsCancel : On(c[1], c[2], c[3])
    \/ Emit("ping", "v1")
    \/ \E r \in RegIds : Unlisten(r)
    \/ \E r \in RegIds : ListenerTimer(r)
    \/ Tick

SpecCancel == InitFresh /\ [][NextCancel]_vars

\* A channel with a TTL and one without, both with storage and hooks
ConfigsTtl ==
    { [Full(Undefined, "session") EXCEPT !.ttl = Ttl],
      Full(Undefined, "session") }

\* Channels with a TTL under a clock that runs: a channel with a TTL is
\* created while its deadline is within the time modelled
NextTtl ==
    \/ \E n \in OneName, c \in ConfigsTtl :
          /\ c.ttl > 0 => now + c.ttl <= StartTime + MaxTime
          /\ Channel(n, c)
    \/ \E n \in OneName : Publish(n, "v1", FALSE)
    \/ \E n \in OneName : Subscribe(n, "s2")
    \/ \E n \in OneName : Clear(n)
    \/ \E n \in OneName : TtlExpire(n)
    \/ Tick

\* Time passes, and a timer that is due fires (the event loop runs)
SpecTtl ==
    /\ InitFresh /\ [][NextTtl]_vars
    /\ WF_vars(Tick)
    /\ WF_vars(\E n \in OneName : TtlExpire(n))

\* Channels whose hooks throw: onChange immediate, throttled or debounced,
\* with and without initial value, one with a TTL
\* (a configuration with every hook, all of them throwing)
ThrowingHooks(iv) ==
    [Full(iv, "session") EXCEPT !.hooksThrow = TRUE, !.validate = "none",
                                !.transform = "none"]

ConfigsThrowing ==
    { ThrowingHooks(iv) : iv \in {Undefined, "v1"} } \cup
    { [ThrowingHooks("v1") EXCEPT !.throttle = Throttle, !.ttl = Ttl],
      [ThrowingHooks("v1") EXCEPT !.debounce = Debounce] }

\* The handlers on channels whose hooks throw
NextThrowing ==
    \/ \E n \in OneName, c \in ConfigsThrowing : Channel(n, c)
    \/ \E n \in OneName : Publish(n, "v2", FALSE)
    \/ \E n \in OneName : Subscribe(n, "s2")
    \/ \E n \in OneName : Clear(n)
    \/ \E n \in OneName : DebounceFire(n)
    \/ \E n \in OneName : TtlExpire(n)
    \/ Tick

SpecThrowing == InitFresh /\ [][NextThrowing]_vars

\* One callback subscribed several times, on channels with and without
\* autoCleanup
NextTwice ==
    \/ \E n \in OneName, c \in {NoConfig, [NoConfig EXCEPT !.autoCleanup = TRUE]} :
         Channel(n, c)
    \/ \E n \in OneName, cb \in Callbacks : SubscribeCounted(n, cb)
    \/ \E h \in handles : UnsubscribeCounted(h)
    \/ \E n \in OneName, v \in {"v1", "v2"} : Publish(n, v, FALSE)
    \/ \E n \in OneName : Clear(n)

SpecTwice == InitFresh /\ [][NextTwice]_vars

\* Persisted channels on a page whose stores work: every kind of value is
\* published, no write fails
NextStored ==
    \/ \E n \in OneName, m \in Modes, iv \in {Undefined, "v1"} :
         Channel(n, [NoConfig EXCEPT !.storage = m, !.initialValue = iv,
                                     !.autoCleanup = TRUE])
    \/ \E n \in OneName, v \in Val \cup {NaN} :
         Publish(n, v, FALSE) /\ ~out'.serr
    \/ \E n \in OneName, cb \in Callbacks : Subscribe(n, cb)
    \/ \E h \in handles : Unsubscribe(h)
    \/ \E n \in OneName : Clear(n)

SpecStored == InitFresh /\ [][NextStored]_vars

\* Channels whose validate or transform hook throws on v2: a persisted
\* channel with every hook and a debounced onChange
ConfigsHookThrows ==
    { [Full(iv, "session") EXCEPT !.validate = h[1], !.transform = h[2],
                                  !.debounce = Debounce] :
        iv \in {Undefined, "v1"},
        h \in {<<"throwsV2", "none">>, <<"none", "throwsV2">>,
                <<"notV2", "throwsV2">>} }

NextHookThrows ==
    \/ \E n \in OneName, c \in ConfigsHookThrows : Channel(n, c)
    \/ \E n \in OneName, v \in {"v1", "v2"} : Publish(n, v, FALSE)
    \/ \E n \in OneName : Subscribe(n, "s2")
    \/ \E n \in OneName : Clear(n)
    \/ \E n \in OneName : DebounceFire(n)
    \/ Tick

SpecHookThrows == InitFresh /\ [][NextHookThrows]_vars

\* A channel with a subscriber that publishes from inside its invocation
NextReentrant ==
    \/ \E n \in OneName :
         Channel(n, [NoConfig EXCEPT !.initialValue = "v2", !.onChange = TRUE])
    \/ \E n \in OneName, v \in {"v1", "v2", Null} : Publish(n, v, FALSE)
    \/ \E n \in OneName, cb \in {"s1", "s2", Republisher} : Subscribe(n, cb)
    \/ \E h \in handles : Unsubscribe(h)

SpecReentrant == InitFresh /\ [][NextReentrant]_vars

busVars == <<channels, chanOrder, created, store, storageDenied, now, timers,
             handles, subscriptions>>

\* conditional(conditionKey, placeholder) is applied to the getter of the
\* class, once, before any instance exists
Decorate(ph) ==
    /\ out.op = "init"
    /\ placeholder' = ph
    /\ out' = [out EXCEPT !.op = "conditional", !.name = "-", !.ret = ph]
    /\ UNCHANGED <<hosts, controller>>
    /\ UNCHANGED busVars /\ UNCHANGED evVars /\ UNCHANGED routerVars
    /\ UNCHANGED loadVars

\* this[conditionKey] = v on instance i
SetCondition(i, v) ==
    /\ out.op /= "init"
    /\ hosts' = [hosts EXCEPT ![i].condition = v]
    /\ out' = [out EXCEPT !.op = "set", !.name = i, !.ret = v]
    /\ UNCHANGED <<controller, placeholder>>
    /\ UNCHANGED busVars /\ UNCHANGED evVars /\ UNCHANGED routerVars
    /\ UNCHANGED loadVars

\* a read of the decorated getter on instance i
Get(i) ==
    /\ out.op /= "init"
    /\ LET g == ConditionalGet(hosts, controller, placeholder, i)
       IN /\ hosts' = g.hosts
          /\ controller' = g.controller
          /\ out' = [out EXCEPT !.op = "get", !.name = i, !.ret = g.ret]
    /\ UNCHANGED placeholder
    /\ UNCHANGED busVars /\ UNCHANGED evVars /\ UNCHANGED routerVars
    /\ UNCHANGED loadVars

NextConditional ==
    \/ \E ph \in Placeholders : Decorate(ph)
    \/ \E i \in Instances, v \in Conditions : SetCondition(i, v)
    \/ \E i \in Instances : Get(i)


\* Registrations of one listener function under one name, each with its
\* own options
OnCallsPrivate ==
    { <<"ping", "ok", [NoOptions EXCEPT !.debounce = Debounce]>>,
      <<"ping", "ok", [NoOptions EXCEPT !.once = TRUE, !.debounce = Debounce]>>,
      <<"ping", "ok", [NoOptions EXCEPT !.throttle = Throttle]>>,
      <<"ping", "ok", [NoOptions EXCEPT !.once = TRUE]>> }

\* Registrations with private timers, timestamps and once flags
NextPrivate ==
    \/ \E c \in OnCallsPrivate : On(c[1], c[2], c[3])
    \/ Emit("ping", "v1")
    \/ Off("ping")
    \/ \E r \in RegIds : ListenerTimer(r)
    \/ Tick

SpecPrivate == InitFresh /\ [][NextPrivate]_vars

\* Registrations whose validate option refuses v2 and whose transform
\* option swaps the values; one of them once, one with a throwing listener
OnCallsFiltered ==
    { <<"ping", l, [NoOptions EXCEPT !.once = o, !.validate = "notV2",
                                     !.transform = "swap"]>> :
        l \in {"ok", "throws"}, o \in BOOLEAN }

\* Filtered registrations
NextFiltered ==
    \/ \E c \in OnCallsFiltered : On(c[1], c[2], c[3])
    \/ \E d \in {"v1", "v2", Null} : Emit("ping", d)
    \/ \E r \in RegIds : Unlisten(r)
    \/ Off("ping")

SpecFiltered == InitFresh /\ [][NextFiltered]_vars

\* A channel whose onChange has both a debounce and a throttle option
ConfigBoth ==
    [NoConfig EXCEPT !.initialValue = "v1", !.onChange = TRUE,
                     !.debounce = Debounce, !.throttle = Throttle]

\* A registration with both options
OnCallsBoth ==
    { <<"ping", "ok", [NoOptions EXCEPT !.debounce = Debounce,
                                        !.throttle = Throttle]>> }

\* Debounce and throttle given together, for a channel and for a listener
NextBoth ==
    \/ \E n \in OneName : Channel(n, ConfigBoth)
    \/ \E n \in OneName, v \in {"v1", "v2"} : Publish(n, v, FALSE)
    \/ \E n \in OneName : Clear(n)
    \/ \E n \in OneName : DebounceFire(n)
    \/ \E c \in OnCallsBoth : On(c[1], c[2], c[3])
    \/ \E d \in {"v1", "v2"} : Emit("ping", d)
    \/ \E r \in RegIds : ListenerTimer(r)
    \/ Tick

SpecBoth == InitFresh /\ [][NextBoth]_vars
SpecConditional == InitFresh /\ [][NextConditional]_vars

ApplyPage(op, n, v, R) ==
    /\ location'   = R.loc
    /\ history'    = R.hist
    /\ router'     = R.rt
    /\ pendingGuards' = R.pend
    /\ guardCalls' = R.n
    /\ out' = [out EXCEPT !.op = op, !.name = n, !.arg = v,
                          !.calls = R.calls, !.cerr = R.cerr]
    /\ UNCHANGED busVars /\ UNCHANGED evVars /\ UNCHANGED condVars
    /\ UNCHANGED loadVars

\* the history and the calls of the guard stay within the bounds
Room == Len(history) < MaxHist /\ guardCalls < MaxGuard

\* the element is attached to the document
Connect ==
    /\ ~router.connected /\ Room
    /\ ApplyPage("connect", location, "-", ConnectedCallback(Page))

Disconnect ==
    /\ router.connected
    /\ ApplyPage("disconnect", "-", "-", DisconnectedCallback(Page))

\* the parent template assigns the property beforeRoute
SetBeforeRoute(b) ==
    /\ router.beforeRoute /= b
    /\ ApplyPage("beforeRoute", "-", "-", [Page EXCEPT !.rt.beforeRoute = b])

\* some element calls this.navigate(path, {replace})
Navigate(path, replace) ==
    /\ Room
    /\ ApplyPage("navigate", path, IF replace THEN "replace" ELSE "push",
                 NavigateOp(Page, path, replace))

\* the promise of a call of beforeRoute settles and the function that
\* awaits it goes on
Settle(p, result) ==
    /\ p \in pendingGuards /\ Len(history) < MaxHist
    /\ LET R == [Page EXCEPT !.pend = @ \ {p}]
       IN ApplyPage("settled " \o p.kind, p.path, result,
                    CASE p.kind = "navigate"  -> NavigateSettled(R, p, result)
                      [] p.kind = "initial"   -> InitialSettled(R, p, result)
                      [] p.kind = "urlchange" -> UrlChangeSettled(R, p, result))

\* the MutationObserver reports a change below the element (:128-130)
Mutation ==
    /\ router.observing /\ Room
    /\ ApplyPage("mutation", "-", "-", CheckUrlChange(Page))

NextRouter ==
    \/ Connect
    \/ Disconnect
    \/ \E b \in BOOLEAN : SetBeforeRoute(b)
    \/ \E path \in NavPaths, replace \in BOOLEAN : Navigate(path, replace)
    \/ \E p \in pendingGuards, result \in Results : Settle(p, result)
    \/ Mutation

SpecRouter == InitFresh /\ [][NextRouter]_vars

---------------------------------------------------------------------------
(* The element with a @lazy, @defer or @delay getter *)

ApplyLoad(op, v, W) ==
    /\ element' = W.el
    /\ loadController' = W.c
    /\ out' = [out EXCEPT !.op = op, !.name = W.c.kind, !.arg = v,
                          !.calls = W.calls, !.cerr = W.cerr, !.ret = W.ret]
    /\ UNCHANGED busVars /\ UNCHANGED evVars /\ UNCHANGED condVars
    /\ UNCHANGED routerVars

\* the decorator is applied to the getter of the class
DecorateLoad(kind, ms, loader, ph) ==
    /\ out.op = "init"
    /\ ApplyLoad("decorate", "-",
                 [Widget EXCEPT !.c.kind = kind, !.c.delay = ms,
                                !.c.loader = loader, !.c.placeholder = ph])

\* the element is attached to the document: Lit calls hostConnected of
\* its controllers
HostConnect ==
    /\ loadController.kind /= "none" /\ ~element.connected
    /\ LET W == [Widget EXCEPT !.el.connected = TRUE,
                               !.el.connectedAt = IF @ = 0 THEN now ELSE @]
       IN ApplyLoad("connect", "-",
                    IF W.c.created THEN HostConnected(W) ELSE W)

HostDisconnect ==
    /\ element.connected
    /\ LET W == [Widget EXCEPT !.el.connected = FALSE]
       IN ApplyLoad("disconnect", "-",
                    IF W.c.created THEN HostDisconnected(W) ELSE W)

\* a read of the decorated getter
ReadGetter ==
    /\ loadController.kind /= "none"
    /\ ApplyLoad("get", "-", LoadGet(Widget))

\* the loader may be started again
CanLoad == loadController.loaderStarts < MaxLoad

\* the timer of hostConnected fires
LoadTimer ==
    /\ Due(loadController.timeout) /\ CanLoad
    /\ ApplyLoad("timer", "-", Load([Widget EXCEPT !.c.timeout = NoTimer]))

\* the microtask of @defer without delay runs
Microtask ==
    /\ loadController.microtask /\ CanLoad
    /\ ApplyLoad("microtask", "-", Load([Widget EXCEPT !.c.microtask = FALSE]))

\* the requestAnimationFrame callback of @lazy: the observer observes the
\* placeholder element if the render root holds one
Frame ==
    /\ loadController.frame
    /\ ApplyLoad("frame", "-",
                 [Widget EXCEPT !.c.frame = FALSE,
                                !.c.observing = ~loadController.isLoaded])

\* the IntersectionObserver reports the placeholder element as intersecting
Intersect ==
    /\ loadController.observing /\ element.connected /\ CanLoad
    /\ ApplyLoad("intersect", "-", Load(Widget))

\* the promise of a loader settles and the load that awaits it goes on
LoaderSettles(rejected) ==
    /\ loadController.inflight > 0
    /\ ApplyLoad("settled", IF rejected THEN "rejected" ELSE "resolved",
                 FinishLoad([Widget EXCEPT !.c.inflight = @ - 1], rejected))

\* the element's state changes: its original getter gives another value
SetData(v) ==
    /\ loadController.kind /= "none" /\ element.data /= v
    /\ ApplyLoad("data", v, [Widget EXCEPT !.el.data = v])

NextLoad ==
    \/ \E kind \in {"lazy", "defer", "delay"}, ms \in {0, DelayMs},
          loader \in BOOLEAN, ph \in Placeholders :
         /\ kind = "delay" => ms = DelayMs
         /\ kind = "lazy" => ms = 0
         /\ DecorateLoad(kind, ms, loader, ph)
    \/ HostConnect
    \/ HostDisconnect
    \/ ReadGetter
    \/ LoadTimer
    \/ Microtask
    \/ Frame
    \/ Intersect
    \/ \E rejected \in BOOLEAN : LoaderSettles(rejected)
    \/ \E v \in {"v1", "v2"} : SetData(v)
    \/ Tick

SpecLoad == InitFresh /\ [][NextLoad]_vars





---------------------------------------------------------------------------
(* Properties.  out' tells which handler a step ran: Did("publish", n)    *)
(* holds of the steps of publish(n, out'.arg).                             *)

Did(op, n) == out'.op = op /\ out'.name = n

CallsOf(o, fn, n) == SelectSeq(o.calls, LAMBDA c : c.fn = fn /\ c.name = n)

HasCall(o, fn) == \E i \in 1..Len(o.calls) : o.calls[i].fn = fn

StoredText(n) == store[channels[n].storage][channels[n].storageKey]

\* C1: on an existing channel with a validate hook, a publish of a value
\* the hook refuses changes nothing: the channel object (value, initialized
\* flag, pending debounce timer, subscribers) and the stores are as before,
\* and no hook or subscriber is invoked; only the warning is logged.
C1_RefusedPublishChangesNothing ==
    [][\A n \in Names :
         ( /\ Did("publish", n)
           /\ channels[n].live
           /\ channels[n].config.validate /= "none"
           /\ ~Validate(channels[n].config.validate, out'.arg) )
         => /\ channels' = channels
            /\ store' = store
            /\ timers' = timers
            /\ out'.calls = <<>>
            /\ out'.warn]_vars

\* C1 witness: a publish was refused on a stored channel with a subscriber
\* while a debounced onChange was pending
C1_Witness ==
    \E n \in Names :
        /\ out.op = "publish" /\ out.warn
        /\ channels[n].live
        /\ timers[n].deb.pending
        /\ channels[n].storage /= "memory" /\ StoredText(n) /= NoItem
        /\ channels[n].subscribers /= <<>>

\* C2: on an existing channel with transform f, an accepted publish of v
\* makes getValue f(v), writes the text of f(v) to the store (unless the
\* write fails) and calls every subscriber with f(v).
C2_TransformedValueEverywhere ==
    [][\A n \in Names :
         ( /\ Did("publish", n)
           /\ channels[n].live
           /\ channels[n].config.transform /= "none"
           /\ channels[n].config.validate /= "none"
                => Validate(channels[n].config.validate, out'.arg) )
         => LET fv == Transform(channels[n].config.transform, out'.arg) IN
            /\ GetValue(n)' = fv
            /\ (channels[n].storage /= "memory" /\ ~out'.serr)
                 => store'[channels[n].storage][channels[n].storageKey]
                      = JSONstringify(fv)
            /\ \A i \in 1..Len(out'.calls) :
                 out'.calls[i].fn = "subscriber" => out'.calls[i].arg = fv
            /\ \A i \in 1..Len(channels[n].subscribers) :
                 \E j \in 1..Len(out'.calls) :
                    /\ out'.calls[j].fn = "subscriber"
                    /\ out'.calls[j].who = channels[n].subscribers[i]]_vars

\* C2 witness: after a publish on a stored channel with a transform, a
\* subscriber was called and value, store and subscriber agree
C2_Witness ==
    \E n \in Names :
        /\ out.op = "publish" /\ HasCall(out, "subscriber")
        /\ channels[n].live /\ channels[n].config.transform = "swap"
        /\ channels[n].storage = "session"
        /\ NonAbsent(channels[n].value)
        /\ StoredText(n) = JSONstringify(channels[n].value)

\* the callbacks the handler called as subscribers of n, in order
Notified(o, n) ==
    LET cs == CallsOf(o, "subscriber", n) IN [i \in 1..Len(cs) |-> cs[i].who]

\* C3: on an existing channel every subscriber that is registered has
\* received, since it subscribed, exactly the values the accepted publishes
\* stored, in publish order, and getValue is the last of them; each accepted
\* publish calls every registered subscriber once, inside the call, with
\* the value it stores.
C3_SubscribersSeeEveryPublishInOrder ==
    /\ [](\A n \in Names : channels[n].live =>
            /\ \A i \in 1..Len(channels[n].subscribers) :
                 LET cb == channels[n].subscribers[i] IN
                 channels[n].seen[cb] =
                    SubSeq(channels[n].pubs, channels[n].subAt[cb] + 1,
                           Len(channels[n].pubs))
            /\ channels[n].pubs /= <<>> =>
                 GetValue(n) = channels[n].pubs[Len(channels[n].pubs)])
    /\ [][\A n \in Names :
            ( /\ Did("publish", n)
              /\ channels[n].live
              /\ channels[n].config.validate /= "none"
                   => Validate(channels[n].config.validate, out'.arg) )
            => LET c  == channels[n].config
                   tv == IF c.transform /= "none"
                         THEN Transform(c.transform, out'.arg) ELSE out'.arg
               IN /\ channels'[n].pubs = Append(channels[n].pubs, tv)
                  /\ Notified(out', n) = channels[n].subscribers
                  /\ \A i \in 1..Len(out'.calls) :
                       out'.calls[i].fn = "subscriber" => out'.calls[i].arg = tv
                  /\ channels'[n].subscribers = channels[n].subscribers]_vars

\* C3 witness: the counter scenario: the channel was created with an
\* initial value, a subscriber registered before two publishes has seen
\* both in order, and getValue is the second
C3_Witness ==
    \E n \in Names :
        /\ channels[n].live
        /\ channels[n].config = [NoConfig EXCEPT !.initialValue = "v1"]
        /\ channels[n].subAt["s1"] = 0
        /\ InSeq(channels[n].subscribers, "s1")
        /\ channels[n].seen["s1"] = <<"v2", "v1">>
        /\ GetValue(n) = "v1"

\* the step gives channel object n its first non-absent value
FirstHeld(n) ==
    /\ channels'[n].live /\ channels'[n].hadValue
    /\ ~(channels[n].live /\ channels[n].inst = channels'[n].inst
         /\ channels[n].hadValue)

\* C4: a channel object with an onInit hook has had onInit invoked once if
\* it has ever held a non-absent value and never otherwise; the invocation
\* happens in the handler that gives it its first non-absent value
\* (channel() for an initial or stored value, else a publish), with that
\* value, and in no other handler.
C4_OnInitExactlyOnce ==
    /\ [](\A n \in Names :
            channels[n].live /\ channels[n].config.onInit
              => channels[n].nInit = IF channels[n].hadValue THEN 1 ELSE 0)
    /\ [][\A n \in Names :
            CallsOf(out', "onInit", n) =
               IF FirstHeld(n) /\ channels'[n].config.onInit
               THEN <<Call("onInit", n, "-", channels'[n].value, "-")>>
               ELSE <<>>]_vars

\* C4 witness: a publish on a channel whose onInit has run invoked
\* onChange and not onInit
C4_Witness ==
    \E n \in Names :
        /\ out.op = "publish"
        /\ channels[n].live /\ channels[n].config.onInit
        /\ channels[n].nInit = 1
        /\ HasCall(out, "onChange") /\ ~HasCall(out, "onInit")

NoHooks(c) ==
    /\ c.validate = "none" /\ c.transform = "none"
    /\ ~c.onChange /\ ~c.onInit /\ ~c.onClear

\* C5: channel(name, config) on a live name returns the signal of the
\* existing channel object and changes nothing (channel object, stores, timers,
\* no hook invoked, no storage read), whatever the configuration; a channel
\* created by subscribe or publish is a memory channel without hooks.
C5_RepeatedChannelIgnoresConfig ==
    /\ [][\A n \in Names :
            (Did("channel", n) /\ channels[n].live)
            => /\ channels' = channels
               /\ store' = store
               /\ timers' = timers
               /\ handles' = handles
               /\ out'.calls = <<>> /\ ~out'.serr
               /\ out'.ret = GetSignal(n)]_vars
    /\ [][\A n \in Names :
            ( /\ Did("publish", n) \/ Did("subscribe", n)
              /\ ~channels[n].live )
            => /\ channels'[n].live
               /\ channels'[n].storage = "memory"
               /\ channels'[n].ttl = 0 /\ ~channels'[n].autoCleanup
               /\ NoHooks(channels'[n].config)]_vars

\* C5 witness: channel() was called on a channel that subscribe created
C5_Witness ==
    \E n \in Names :
        /\ out.op = "channel" /\ out.ret = channels[n].inst
        /\ channels[n].live /\ channels[n].config = NoConfig
        /\ channels[n].subscribers /= <<>>

\* the handler was an accepted publish(n, out'.arg) on a live channel
AcceptedPublish(n) ==
    /\ Did("publish", n)
    /\ channels[n].live
    /\ channels[n].config.validate /= "none"
         => Validate(channels[n].config.validate, out'.arg)

\* the value an accepted publish(n, out'.arg) stores
StoredValue(n) ==
    IF channels[n].config.transform /= "none"
    THEN Transform(channels[n].config.transform, out'.arg) ELSE out'.arg

Debounced(n) ==
    /\ channels[n].live /\ channels[n].config.onChange
    /\ channels[n].config.debounce > 0

\* C6: on a channel with onChange and debounce D an accepted publish calls
\* no onChange; it replaces the channel's one debounce timer by a timer due
\* D later that holds the value it stored and the value of the channel
\* just before it.  onChange is called only when that timer fires, at its
\* due time, once, with what the timer holds: N publishes less than D apart
\* give one call, D after the last, with the last value and the one before.
C6_DebouncedOnChange ==
    /\ [][\A n \in Names :
            (AcceptedPublish(n) /\ Debounced(n))
            => /\ CallsOf(out', "onChange", n) = <<>>
               /\ timers'[n].deb =
                    [pending |-> TRUE,
                     at      |-> now + channels[n].config.debounce,
                     new     |-> StoredValue(n),
                     old     |-> GetValue(n)]]_vars
    /\ [][\A n \in Names :
            (Debounced(n) /\ CallsOf(out', "onChange", n) /= <<>>)
            => /\ Did("debounce", n)
               /\ timers[n].deb.pending /\ timers[n].deb.at = now
               /\ out'.calls = <<Call("onChange", n, "-", timers[n].deb.new,
                                      timers[n].deb.old)>>
               /\ ~timers'[n].deb.pending]_vars
    /\ [](\A n \in Names : timers[n].deb.pending => timers[n].deb.at >= now)

\* C6 witness: a channel created without a value was published to twice
\* within D; the timer has fired once, D after the second publish, with
\* the second value and the first
C6_Witness ==
    \E n \in Names :
        /\ out.op = "debounce"
        /\ out.calls = <<Call("onChange", n, "-", "v2", "v1")>>
        /\ channels[n].live /\ channels[n].inst = 1
        /\ channels[n].config.initialValue = Undefined
        /\ now = StartTime + Debounce + 1

Throttled(n) ==
    /\ channels[n].live /\ channels[n].config.onChange
    /\ channels[n].config.debounce = 0 /\ channels[n].config.throttle > 0

\* C7: on a channel with onChange and throttle T (no debounce) an accepted
\* publish calls onChange, inside the call, if T or more has passed since
\* the last onChange call of the channel (or there was none) and otherwise
\* makes no call and sets no timer; no other handler calls onChange.
C7_ThrottledOnChange ==
    /\ [][\A n \in Names :
            (AcceptedPublish(n) /\ Throttled(n))
            => LET open == now - channels[n].onChangeLastCall
                             >= channels[n].config.throttle
               IN /\ CallsOf(out', "onChange", n) =
                       IF open
                       THEN <<Call("onChange", n, "-", StoredValue(n), GetValue(n))>>
                       ELSE <<>>
                  /\ channels'[n].onChangeLastCall =
                       IF open THEN now ELSE channels[n].onChangeLastCall
                  /\ timers' = timers]_vars
    /\ [][\A n \in Names :
            (Throttled(n) /\ ~Did("publish", n))
            => CallsOf(out', "onChange", n) = <<>>]_vars
    /\ [](\A n \in Names :
            Throttled(n) => \/ channels[n].onChangeLastCall = 0
                            \/ /\ channels[n].onChangeLastCall >= StartTime
                               /\ channels[n].onChangeLastCall <= now)

\* C7 witness: an accepted publish less than T after an onChange call was
\* dropped
C7_Witness ==
    \E n \in Names :
        /\ out.op = "publish" /\ ~out.warn
        /\ Throttled(n)
        /\ channels[n].onChangeLastCall = now - 1
        /\ HasCall(out, "subscriber") /\ ~HasCall(out, "onChange")

\* C8: calling the unsubscribe handle of a live channel object removes its
\* callback; if the channel has autoCleanup and no subscriber is left the
\* channel is cleared (onClear invoked, storage entry removed, timers
\* cancelled, name unlisted); otherwise only the subscriber set changes.
C8_AutoCleanup ==
    [][\A h \in handles :
         ( /\ out'.op = "unsubscribe"
           /\ channels[h.name].live /\ channels[h.name].inst = h.inst
           /\ Unsubscribe(h) )
         => LET n    == h.name
                ch   == channels[n]
                rest == SeqWithout(ch.subscribers, h.cb)
            IN IF ch.autoCleanup /\ rest = <<>>
               THEN /\ ~channels'[n].live
                    /\ ~InSeq(ListChannels', n)
                    /\ GetValue(n)' = Undefined
                    /\ out'.calls = IF ch.config.onClear
                                    THEN <<Call("onClear", n, "-", "-", "-")>>
                                    ELSE <<>>
                    /\ ch.storage /= "memory"
                         => store'[ch.storage][ch.storageKey] = NoItem
                    /\ timers'[n] = NoTimers
               ELSE /\ channels' = [channels EXCEPT ![n].subscribers = rest]
                    /\ chanOrder' = chanOrder
                    /\ store' = store
                    /\ timers' = timers
                    /\ out'.calls = <<>>]_vars

\* C8 witness: the last unsubscribe of an autoCleanup channel cleared it
C8_Witness ==
    \E n \in Names :
        /\ out.op = "unsubscribe" /\ out.name = n
        /\ out.calls = <<Call("onClear", n, "-", "-", "-")>>
        /\ ~channels[n].live /\ ListChannels = <<>>
        /\ store["session"][DefaultKey(n)] = NoItem
        /\ timers[n] = NoTimers

\* C9: a listener registered with once (or the option once) is invoked at
\* most once, whatever the listener does and whatever the other options.
\* The code marks the registration and removes it only after the listener
\* has returned, so the statement fails.
C9_OnceListenerAtMostOnce ==
    \A r \in RegIds :
        (regs[r].used /\ regs[r].options.once) => regs[r].callCount <= 1

\* C10: clear(name) on a session or persistent channel leaves no entry under
\* its storage key, and a channel(name, config) that follows it, with the
\* same storage mode (and key) and no initialValue, creates a channel whose
\* value is undefined.
C10_ClearRemovesStoredValue ==
    /\ [][\A n \in Names :
            (Did("clear", n) /\ channels[n].live /\ channels[n].storage /= "memory")
            => /\ store'[channels[n].storage][channels[n].storageKey] = NoItem
               /\ ~channels'[n].live]_vars
    /\ [][\A n \in Names :
            ( /\ out.op = "clear" /\ out.name = n
              /\ out.arg \in {"session", "persistent"}
              /\ Did("channel", n)
              /\ channels'[n].config.storage = out.arg
              /\ channels'[n].storageKey = DefaultKey(n)
              /\ channels'[n].config.initialValue = Undefined )
            => /\ channels'[n].live
               /\ GetValue(n)' = Undefined
               /\ ~channels'[n].isInitialized
               /\ CallsOf(out', "onInit", n) = <<>>]_vars

\* C10 witness: a second channel object was created in session mode, after
\* a clear, without initial value, and holds undefined
C10_Witness ==
    \E n \in Names :
        /\ out.op = "channel"
        /\ channels[n].live /\ channels[n].inst = 2
        /\ channels[n].storage = "session"
        /\ channels[n].config.initialValue = Undefined
        /\ ~storageDenied
        /\ GetValue(n) = Undefined

\* C11 as the specification states it: a name never published to holds no
\* value.  (Under SpecUnpublished no name is ever published to.)  It fails:
\* channel(name, {initialValue}) and a stored value give the name a value.
C11_UnpublishedNameIsAbsent ==
    \A n \in Names : ~NonAbsent(GetValue(n))

\* the value a channel of configuration c is created with, from the text
\* under its key
CreatedValue(n, c) ==
    LET raw == IF c.storage = "memory" \/ storageDenied THEN NoItem
               ELSE store[c.storage][KeyOf(n, c)]
    IN CASE raw = "1"    -> "v1"
         [] raw = "2"    -> "v2"
         [] raw = "null" -> Null
         [] OTHER        -> c.initialValue

\* C11 (amended): for a name never published to, getValue(name) is
\* undefined while no channel of the name is live, and while one is live it
\* is the value the channel was created with: the value stored under its
\* storage key if there is one, else config.initialValue.
C11_UnpublishedNameHoldsCreatedValue ==
    \A n \in Names :
        GetValue(n) = IF channels[n].live
                      THEN CreatedValue(n, channels[n].config)
                      ELSE Undefined

\* C11 witness: a channel created with an initial value, subscribed to,
\* never published to, holds that value
C11_Witness ==
    \E n \in Names :
        /\ channels[n].live /\ channels[n].inst = 2
        /\ channels[n].config.initialValue = "v1"
        /\ channels[n].subscribers /= <<>>
        /\ GetValue(n) = "v1"

\* C12: publish(name, v) on a name without live channel creates a
\* memory-mode channel without hooks and subscribers whose value is v,
\* invokes nothing, logs nothing and writes no storage; a later publish to
\* the channel it created is an ordinary one: the value is replaced and
\* every subscriber is notified.
C12_PublishCreatesChannel ==
    /\ [][\A n \in Names :
            (Did("publish", n) /\ ~channels[n].live)
            => /\ channels'[n].live
               /\ channels'[n].inst = created[n] + 1
               /\ channels'[n].storage = "memory"
               /\ channels'[n].config =
                    [NoConfig EXCEPT !.initialValue = out'.arg]
               /\ GetValue(n)' = out'.arg
               /\ channels'[n].subscribers = <<>>
               /\ channels'[n].isInitialized = NonAbsent(out'.arg)
               /\ ListChannels' = Append(ListChannels, n)
               /\ out'.calls = <<>> /\ ~out'.warn /\ ~out'.serr
               /\ store' = store /\ timers' = timers]_vars
    /\ [][\A n \in Names :
            ( /\ Did("publish", n) /\ channels[n].live
              /\ \E v \in Val : channels[n].config =
                                  [NoConfig EXCEPT !.initialValue = v] )
            => /\ channels'[n].inst = channels[n].inst
               /\ GetValue(n)' = out'.arg
               /\ out'.calls =
                    [i \in 1..Len(channels[n].subscribers) |->
                       Call("subscriber", n, channels[n].subscribers[i],
                            out'.arg, "-")]
               /\ store' = store]_vars

\* C12 witness: a publish created the channel with v1, a subscriber came,
\* and a second publish gave it v2
C12_Witness ==
    \E n \in Names :
        /\ out.op = "publish" /\ out.arg = "v2"
        /\ channels[n].live
        /\ channels[n].config = [NoConfig EXCEPT !.initialValue = "v1"]
        /\ GetValue(n) = "v2"
        /\ HasCall(out, "subscriber")

\* C13: in an accepted publish on a channel with a subscriber that throws,
\* every subscriber of the channel is called, in order, with the new value;
\* the exception is logged and does not reach the caller of publish; the
\* channel holds the new value and so does its storage entry (unless
\* setItem failed).
C13_ThrowingSubscriberDoesNotStopFanOut ==
    [][\A n \in Names :
         ( /\ AcceptedPublish(n)
           /\ \E i \in 1..Len(channels[n].subscribers) :
                  Throws(channels[n].subscribers[i]) )
         => /\ CallsOf(out', "subscriber", n) =
                 [i \in 1..Len(channels[n].subscribers) |->
                    Call("subscriber", n, channels[n].subscribers[i],
                         StoredValue(n), "-")]
            /\ out'.cerr /\ ~out'.thrown
            /\ channels'[n].live /\ GetValue(n)' = StoredValue(n)
            /\ channels'[n].subscribers = channels[n].subscribers
            /\ (channels[n].storage /= "memory" /\ ~out'.serr)
                 => store'[channels[n].storage][channels[n].storageKey]
                      = JSONstringify(StoredValue(n))]_vars

\* C13 witness: the throwing subscriber s1 was called first, s2 after it,
\* and the value is stored
C13_Witness ==
    \E n \in Names :
        /\ out.op = "publish" /\ out.cerr
        /\ channels[n].live /\ channels[n].storage = "session"
        /\ channels[n].subscribers = <<"s1", "s2">>
        /\ CallsOf(out, "subscriber", n) =
             <<Call("subscriber", n, "s1", "v2", "-"),
               Call("subscriber", n, "s2", "v2", "-")>>
        /\ GetValue(n) = "v2" /\ StoredText(n) = "2"

\* the listeners emit(e) would call: the Set registered under the name
Registry ==
    [e \in EventNames |->
        IF eventListeners[e] = 0 THEN <<>> ELSE listenerSets[eventListeners[e]]]

Registered(r) == regs[r].used /\ InSeq(Registry[regs[r].name], r)

\* C14: calling the unlisten function of a registration that is in the
\* registry no more (it already ran, the once listener fired, off(name) was
\* called) leaves the registry unchanged, whatever was registered since.
\* The code deletes the entry of the name when the Set the closure holds
\* is empty, whichever Set is registered by then, so the statement fails.
C14_UnlistenIsIdempotent ==
    [][\A r \in RegIds :
         ( /\ out'.op = "unlisten"
           /\ regs[r].used /\ ~Registered(r)
           /\ Unlisten(r) )
         => Registry' = Registry]_vars

\* C15: off(name) deletes the entry of the name and nothing else; emit
\* calls only listeners of the Set registered under its name; and a
\* registration enters the registry only by the on() call that makes it.
\* So no emit after off(name) calls a listener registered before the off,
\* and the listeners of other names stay registered.
C15_OffRemovesEveryListener ==
    /\ [][\A e \in EventNames :
            Did("off", e)
            => /\ Registry' = [Registry EXCEPT ![e] = <<>>]
               /\ regs' = regs
               /\ out'.calls = <<>>]_vars
    /\ [][\A e \in EventNames :
            Did("emit", e)
            => \A i \in 1..Len(out'.calls) :
                  /\ out'.calls[i].fn = "listener"
                  /\ out'.calls[i].name = e
                  /\ \E r \in RegIds : /\ Registered(r) /\ regs[r].name = e
                                       /\ out'.calls[i].who = RegName(r)]_vars
    /\ [][\A r \in RegIds :
            (Registered(r)' /\ ~Registered(r))
            => ~regs[r].used /\ out'.op \in {"on", "once"}]_vars

\* C15 witness: an emit after off("ping") called nothing, though the
\* listener registered before the off is still in the Set it was added to;
\* the listener of "pong" is still registered
C15_Witness ==
    /\ out.op = "emit" /\ out.name = "ping" /\ out.calls = <<>>
    /\ regs[2].used /\ regs[2].name = "ping"
    /\ InSeq(listenerSets[regs[2].set], 2)
    /\ eventListeners["ping"] = 0
    /\ Registry["pong"] = <<1>>

\* C16: clear(name) on a live channel calls onClear once (if there is the
\* hook) and nothing else, empties the subscriber set of the channel
\* object, removes its storage entry and deletes the channel: the name is
\* listed no more and getValue(name) is undefined.  clear(name) on a name
\* without live channel changes nothing and calls nothing, so the second
\* of two clears in a row calls no hook.
C16_ClearDeletesChannelOnce ==
    /\ [][\A n \in Names :
            (Did("clear", n) /\ channels[n].live)
            => /\ out'.calls = IF channels[n].config.onClear
                               THEN <<Call("onClear", n, "-", "-", "-")>>
                               ELSE <<>>
               /\ channels'[n] = NoChannel
               /\ \A h \in handles' : h.name = n => h = Stale(h)
               /\ ~InSeq(ListChannels', n)
               /\ GetValue(n)' = Undefined
               /\ store' = IF channels[n].storage = "memory" THEN store
                           ELSE [store EXCEPT ![channels[n].storage]
                                               [channels[n].storageKey] = NoItem]
               /\ created' = created]_vars
    /\ [][\A n \in Names :
            (Did("clear", n) /\ ~channels[n].live)
            => /\ out'.calls = <<>>
               /\ UNCHANGED <<channels, chanOrder, created, store, timers,
                              handles>>]_vars
    /\ [][\A n \in Names :
            (Did("clear", n) /\ out.op = "clear" /\ out.name = n)
            => out'.calls = <<>>]_vars

\* C16 witness: a clear called onClear and deleted a session channel that
\* had a subscriber and a stored value
C16_Witness ==
    \E n \in Names :
        /\ out.op = "clear" /\ out.name = n /\ out.arg = "session"
        /\ out.calls = <<Call("onClear", n, "-", "-", "-")>>
        /\ channels[n] = NoChannel /\ ListChannels = <<>>
        /\ \E h \in handles : h.name = n
        /\ store["session"][DefaultKey(n)] = NoItem
        /\ ~storageDenied

\* the channels clearAll(mode) is to clear ("": no argument)
Matches(n, mode) ==
    channels[n].live /\ (mode = "" \/ channels[n].storage = mode)

\* C17: clearAll() leaves no live channel; clearAll(mode) clears the
\* channels whose storage mode is mode (onClear, storage entry, timers,
\* registry) and leaves every other channel as it is: its value,
\* subscribers, timers, storage entry and unsubscribe handles.
C17_ClearAllByMode ==
    [][Did("clearAll", "-") =>
        LET mode == out'.arg IN
        /\ mode = "" => \A n \in Names : ~channels'[n].live
        /\ \A n \in Names :
             IF Matches(n, mode)
             THEN /\ channels'[n] = NoChannel
                  /\ timers'[n] = NoTimers
                  /\ channels[n].storage /= "memory"
                       => store'[channels[n].storage][channels[n].storageKey]
                            = NoItem
                  /\ Len(CallsOf(out', "onClear", n)) =
                       IF channels[n].config.onClear THEN 1 ELSE 0
             ELSE /\ channels'[n] = channels[n]
                  /\ timers'[n] = timers[n]
                  /\ (channels[n].live /\ channels[n].storage /= "memory")
                       => store'[channels[n].storage][channels[n].storageKey]
                            = store[channels[n].storage][channels[n].storageKey]
                  /\ CallsOf(out', "onClear", n) = <<>>
                  /\ {h \in handles' : h.name = n} = {h \in handles : h.name = n}
        /\ ListChannels' = SelectSeq(ListChannels, LAMBDA n : ~Matches(n, mode))
        /\ \A i \in 1..Len(out'.calls) : out'.calls[i].fn = "onClear"]_vars

\* C17 witness: clearAll("persistent") cleared one channel and left a
\* session channel with its value, subscriber, storage entry and timers
C17_Witness ==
    /\ out.op = "clearAll" /\ out.arg = "persistent"
    /\ out.calls = <<Call("onClear", "count", "-", "-", "-")>>
    /\ ~channels["count"].live
    /\ channels["theme"].live /\ channels["theme"].storage = "session"
    /\ GetValue("theme") = "v1" /\ StoredText("theme") = "1"
    /\ channels["theme"].subscribers = <<"s2">>
    /\ timers["theme"].ttl.pending /\ timers["theme"].deb.pending

\* C18: a channel created in session or persistent mode while a value is
\* stored under its storage key starts with the stored value, whatever
\* config.initialValue is; created in memory mode, or with no value stored
\* (no entry, an unreadable text, a refused access), it starts with
\* config.initialValue.
C18_StoredValueTakesPrecedence ==
    [][\A n \in Names :
         (~channels[n].live /\ channels'[n].live)
         => LET c   == channels'[n].config
                raw == IF c.storage = "memory" \/ storageDenied THEN NoItem
                       ELSE store[c.storage][channels'[n].storageKey]
            IN /\ raw = "1" => GetValue(n)' = "v1"
               /\ raw = "2" => GetValue(n)' = "v2"
               /\ raw = "null" => GetValue(n)' = Null
               /\ raw \notin {"1", "2", "null"}
                    => GetValue(n)' = c.initialValue]_vars

\* C18 witness: a session channel configured with initialValue v1 was
\* created over the stored text of v2 and holds v2
C18_Witness ==
    \E n \in Names :
        /\ out.op = "channel" /\ ~storageDenied
        /\ channels[n].live /\ channels[n].inst = 1
        /\ channels[n].storage = "session"
        /\ channels[n].config.initialValue = "v1"
        /\ StoredText(n) = "2"
        /\ GetValue(n) = "v2"

\* the registration lets the data through: it is not a once registration
\* that already executed, and its validate option accepts the data
Passes(r, d) ==
    LET o == regs[r].options
    IN /\ ~(o.once /\ regs[r].hasExecuted)
       /\ o.validate = "none" \/ Validate(o.validate, d)

\* ... and neither debounce nor throttle holds the call back
Immediate(r, d) ==
    LET o == regs[r].options
    IN /\ Passes(r, d)
       /\ o.debounce = 0
       /\ o.throttle = 0 \/ now - regs[r].lastCallTime >= o.throttle

\* what the listener of the registration is handed for the data
Given(r, d) ==
    IF regs[r].options.transform = "none" THEN d
    ELSE Transform(regs[r].options.transform, d)

CallsBy(o, r) == SelectSeq(o.calls, LAMBDA c : c.who = RegName(r))

\* C19: emit(name, d) invokes the listener of every registration in the
\* registry of the name exactly once, within the call, with d (as its
\* transform option maps it), unless the registration's validate option
\* refuses d, its throttle window is closed, it is a once registration that
\* already executed, or it has a debounce option, in which case the call is
\* scheduled debounce ms ahead instead; it invokes no other listener; a
\* listener that throws is logged, the listeners after it are invoked all
\* the same and no exception reaches the caller of emit; with no listener
\* registered under the name emit changes nothing.
C19_EmitInvokesEveryListenerOnce ==
    [][Did("emit", "ping") =>
        LET d == out'.arg
            S == Registry["ping"]
        IN /\ ~out'.thrown
           /\ \A i \in 1..Len(out'.calls) : out'.calls[i].fn = "listener"
           /\ \A r \in RegIds :
                 CallsBy(out', r) =
                    IF InSeq(S, r) /\ Immediate(r, d)
                    THEN <<Call("listener", "ping", RegName(r), Given(r, d), "-")>>
                    ELSE <<>>
           /\ \A r \in RegIds :
                 InSeq(S, r) /\ Passes(r, d) /\ regs[r].options.debounce > 0 =>
                    regs'[r].debounceTimer =
                       [pending |-> TRUE, at |-> now + regs[r].options.debounce,
                        data |-> Given(r, d)]
           /\ out'.cerr <=> \E r \in RegIds : /\ InSeq(S, r) /\ Immediate(r, d)
                                              /\ regs[r].listener = "throws"
           /\ S = <<>> =>
                 /\ out'.calls = <<>>
                 /\ UNCHANGED <<channels, chanOrder, created, store,
                                storageDenied, now, timers, handles,
                                eventListeners, listenerSets, regs>>
    ]_vars

\* emit("ping", "v1") with a throwing listener registered before a listener
\* with a transform: both were invoked, the exception was logged
C19_Witness ==
    /\ out.op = "emit" /\ out.arg = "v1"
    /\ out.cerr /\ ~out.thrown
    /\ regs[1].listener = "throws"
    /\ out.calls = <<Call("listener", "ping", "r1", "v1", "-"),
                     Call("listener", "ping", "r2", "v2", "-")>>

\* the wrapped listener is in the Set of its on() call no more
Detached(r) == regs[r].used /\ ~InSeq(listenerSets[regs[r].set], r)

\* ... and no debounced invocation of it is pending
Quiet(r) == Detached(r) /\ ~regs[r].debounceTimer.pending

\* C20: clear(name) on a live channel leaves neither its TTL timer nor a
\* debounced onChange pending; while the name has no channel no timer of the
\* name is pending and none fires; a channel created later under the name
\* starts with its own TTL timer only.  The unlisten function of a
\* registration leaves the registration out of its Set with no debounced
\* invocation pending, and from then on no invocation of it is scheduled
\* and its listener is never invoked.
C20_NoTimerFiresAfterClearOrUnlisten ==
    /\ [][\A n \in Names :
            (Did("clear", n) /\ channels[n].live)
            => ~channels'[n].live /\ timers'[n] = NoTimers]_vars
    /\ [](\A n \in Names : ~channels[n].live => timers[n] = NoTimers)
    /\ [][\A n \in Names :
            ~channels[n].live
            => /\ ~Did("ttl", n) /\ ~Did("debounce", n)
               /\ CallsOf(out', "onChange", n) = <<>>
               /\ channels'[n].live
                    => /\ ~timers'[n].deb.pending
                       /\ timers'[n].ttl.pending
                            => /\ channels'[n].ttl > 0
                               /\ timers'[n].ttl.at = now + channels'[n].ttl]_vars
    /\ [][\A r \in RegIds :
            (out'.op = "unlisten" /\ Unlisten(r)) => Quiet(r)']_vars
    /\ [][\A r \in RegIds :
            Quiet(r) => Quiet(r)' /\ CallsBy(out', r) = <<>>]_vars

\* clear(name) has just cleared a channel created with a TTL (its onClear
\* hook ran, so the TTL had not expired), after the unlisten function of a
\* debounced registration that was never invoked had run: no timer is left
C20_Witness ==
    \E n \in Names :
        /\ out.op = "clear" /\ out.name = n
        /\ out.calls = <<Call("onClear", n, "-", "-", "-")>>
        /\ ~channels[n].live /\ timers[n] = NoTimers
        /\ Quiet(1) /\ regs[1].options.debounce > 0 /\ ~regs[1].options.once
        /\ ~regs[1].hasExecuted

\* the channel object of the name is the same before and after the step
SameObject(n) ==
    /\ channels[n].live /\ channels'[n].live
    /\ channels'[n].inst = channels[n].inst

\* C21: a channel created with ttl > 0 has a TTL timer set for the time of
\* its creation plus ttl, which no later publish or subscribe moves; time
\* does not pass that deadline while the channel object is there, and the
\* object is eventually gone; when the timer fires the channel is cleared
\* (onClear invoked once, storage entry removed, name unlisted); a channel
\* created without ttl has no TTL timer, so no timer clears it.
C21_TtlClearsChannel ==
    /\ [](\A n \in Names :
            channels[n].live =>
               IF channels[n].ttl > 0
               THEN timers[n].ttl.pending /\ now <= timers[n].ttl.at
               ELSE ~timers[n].ttl.pending)
    /\ [][\A n \in Names :
            /\ (Did("channel", n) /\ ~channels[n].live /\ channels'[n].ttl > 0)
               => timers'[n].ttl.at = now + channels'[n].ttl
            /\ SameObject(n) => timers'[n].ttl = timers[n].ttl
            /\ Did("ttl", n)
               => /\ channels[n].live /\ channels[n].ttl > 0
                  /\ now = timers[n].ttl.at
                  /\ ~channels'[n].live /\ ~InSeq(ListChannels', n)
                  /\ out'.calls = IF channels[n].config.onClear
                                  THEN <<Call("onClear", n, "-", "-", "-")>>
                                  ELSE <<>>
                  /\ channels[n].storage /= "memory"
                       => store'[channels[n].storage][channels[n].storageKey]
                             = NoItem]_vars
    /\ \A n \in OneName, i \in 1..MaxInst :
          (channels[n].live /\ channels[n].inst = i /\ channels[n].ttl > 0)
             ~> ~(channels[n].live /\ channels[n].inst = i)

\* the TTL timer has just cleared a session channel, ttl after its creation
\* at the start: its hook ran, its storage entry and its name are gone
C21_Witness ==
    \E n \in Names :
        /\ out.op = "ttl" /\ out.name = n
        /\ out.calls = <<Call("onClear", n, "-", "-", "-")>>
        /\ now = StartTime + Ttl
        /\ ~channels[n].live /\ ListChannels = <<>>
        /\ store["session"][DefaultKey(n)] = NoItem

\* C22: each read of the @conditional getter on an instance returns the
\* content of the original getter of that instance if the property named by
\* the key is truthy on that instance at the read, and otherwise the
\* placeholder (an empty template when none was given).  The decorator
\* keeps one controller for the class, bound to the instance that read the
\* getter first, so the statement fails with two instances.
C22_GetterFollowsOwnCondition ==
    [][\A i \in Instances :
          Did("get", i) =>
             out'.ret = IF Truthy(hosts[i].condition) THEN Content(i)
                        ELSE IF Truthy(placeholder) THEN placeholder
                        ELSE EmptyTemplate]_vars

\* the step navigated to the path: a history entry was pushed, or the
\* current one replaced, and the location and currentPath are the path
Navigated(path, replace) ==
    /\ location' = path /\ router'.currentPath = path
    /\ IF replace
       THEN /\ Len(history') = Len(history)
            /\ history'[Len(history)] = path
            /\ \A k \in 1..(Len(history) - 1) : history'[k] = history[k]
       ELSE history' = Append(history, path)

NotNavigated ==
    /\ location' = location /\ history' = history
    /\ router'.currentPath = router.currentPath

\* C23: while the router is connected, navigate(path) with a beforeRoute
\* callback set calls beforeRoute(path) and changes neither the history nor
\* the location nor currentPath; when the promise of that call settles, the
\* navigation to path is performed if it resolved to true or to an object
\* with continue true, the navigation to the redirect target is performed
\* (without asking the guard again) if it resolved to a denial with a
\* redirect, and nothing changes if it resolved to a denial without
\* redirect, to nothing, or rejected; without beforeRoute navigate performs
\* the navigation at once.  No other step of navigate changes the history.
C23_NavigationWaitsForGuard ==
    /\ [][out'.op = "navigate" /\ router.connected =>
            LET path    == Pathname(out'.name)
                replace == out'.arg = "replace"
            IN IF router.beforeRoute
               THEN /\ NotNavigated
                    /\ out'.calls = <<Call("beforeRoute", path, "-", "-", "-")>>
                    /\ \E p \in pendingGuards' \ pendingGuards :
                          p.kind = "navigate" /\ p.path = path
                          /\ p.replace = replace
               ELSE /\ Navigated(path, replace)
                    /\ out'.calls = <<>>
                    /\ pendingGuards' = pendingGuards]_vars
    /\ [][\A p \in pendingGuards, result \in Results :
            (out'.op = "settled navigate" /\ Settle(p, result)) =>
               /\ out'.calls = <<>>
               /\ IF result.kind \in {"boolean", "object"} /\ result.continue
                  THEN Navigated(p.path, p.replace)
                  ELSE IF result.kind = "object" /\ result.redirect /= Undefined
                  THEN Navigated(result.redirect, p.replace)
                  ELSE NotNavigated]_vars
    /\ [][(history' /= history \/ location' /= location) =>
            \/ out'.op = "navigate" /\ ~router.beforeRoute
            \/ out'.op \in {"settled navigate", "settled initial",
                             "settled urlchange"}]_vars

\* navigate("/a") was asked while connected with a guard; the guard has
\* just denied it with a redirect to /b: the page is at /b
C23_Witness ==
    /\ out.op = "settled navigate" /\ out.name = "/a"
    /\ out.arg = Settled("object", FALSE, "/b")
    /\ router.connected /\ router.beforeRoute
    /\ location = "/b" /\ router.currentPath = "/b"
    /\ history = <<"/", "/b">>

\* the calls of the subscribers, in the order of the Set, with value v
SubscriberCalls(n, subs, v) ==
    [i \in 1..Len(subs) |-> Call("subscriber", n, subs[i], v, "-")]

\* C24: an accepted publish on a channel without debounce and throttle
\* invokes, in this order, onInit (if the configuration has the hook and
\* the channel holds a value for the first time), onChange(newValue,
\* oldValue) (if the configuration has the hook; oldValue is the value of
\* the channel before the publish), and the subscribers; each of them finds
\* the new value when it reads getValue(name), and the value is persisted.
C24_PublishOrder ==
    [][\A n \in Names :
         ( /\ AcceptedPublish(n)
           /\ channels[n].config.debounce = 0
           /\ channels[n].config.throttle = 0 )
         => LET ch      == channels[n]
                new     == StoredValue(n)
                onInit  == IF /\ ch.config.onInit /\ ~ch.isInitialized
                              /\ NonAbsent(new)
                           THEN <<Call("onInit", n, "-", new, "-")>>
                           ELSE <<>>
                onChange == IF ch.config.onChange
                            THEN <<Call("onChange", n, "-", new, ch.value)>>
                            ELSE <<>>
            IN /\ out'.calls = onInit \o onChange
                                 \o SubscriberCalls(n, ch.subscribers, new)
               /\ out'.reads = [i \in 1..Len(out'.calls) |-> new]
               /\ GetValue(n)' = new
               /\ (ch.storage /= "memory" /\ ~out'.serr)
                     => store'[ch.storage][ch.storageKey] = JSONstringify(new)
    ]_vars

\* a first publish on a session channel with every hook and two
\* subscribers: onInit, onChange, s1, s2 in this order, each reading v2
C24_Witness ==
    \E n \in Names :
        /\ channels[n].live /\ channels[n].storage = "session"
        /\ out.op = "publish" /\ out.name = n /\ out.arg = "v1"
        /\ out.calls = <<Call("onInit", n, "-", "v2", "-"),
                         Call("onChange", n, "-", "v2", Undefined),
                         Call("subscriber", n, "s1", "v2", "-"),
                         Call("subscriber", n, "s2", "v2", "-")>>
        /\ out.reads = <<"v2", "v2", "v2", "v2">>
        /\ StoredText(n) = JSONstringify("v2")

\* C25: every event name that has an entry in EventBus.eventListeners maps
\* to a Set with at least one listener, after any on, once, off, emit and
\* unlisten calls, stale and repeated unlisten calls included.
C25_NoEmptyListenerSet ==
    \A e \in EventNames :
        eventListeners[e] /= 0 => listenerSets[eventListeners[e]] /= <<>>

\* a stale unlisten has just run: registration 1 is out of its Set, which
\* was unregistered before registration 2 created its own; the call deleted
\* the entry of the name, registration 2 is still in its Set
C25_Witness ==
    /\ out.op = "unlisten" /\ out.name = "ping"
    /\ regs[1].used /\ regs[2].used
    /\ regs[1].name = "ping" /\ regs[2].name = "ping"
    /\ regs[2].set = 2 /\ listenerSets[2] = <<2>>
    /\ listenerSets[1] = <<>>
    /\ eventListeners["ping"] = 0

\* the closure variables of a registration
Private(r) ==
    <<regs[r].debounceTimer, regs[r].lastCallTime, regs[r].hasExecuted>>

\* C26: two registrations under one name keep independent debounce timers,
\* throttle timestamps and once flags.  When the debounce timer of one
\* fires (its listener is invoked, a once registration removes itself),
\* the closure variables of every other registration are as before and
\* every other registration is reached by emit exactly if it was before;
\* in an emit every registration is invoked, dropped or rescheduled by its
\* own options and closure variables alone, and only a once registration
\* that was invoked leaves the registry.  The self-removal of a once
\* registration whose Set was unregistered by off deletes the entry of the
\* name, and with it the registrations made since, so the statement fails.
C26_RegistrationsAreIndependent ==
    /\ [][\A r \in RegIds, q \in RegIds :
            ( /\ out'.op = "listenerTimer" /\ CallsBy(out', r) /= <<>>
              /\ q /= r /\ regs[q].used )
            => /\ Private(q)' = Private(q)
               /\ Registered(q)' <=> Registered(q)]_vars
    /\ [][\A q \in RegIds :
            (Did("emit", "ping") /\ Registered(q))
            => /\ CallsBy(out', q) =
                    IF Immediate(q, out'.arg)
                    THEN <<Call("listener", "ping", RegName(q),
                                Given(q, out'.arg), "-")>>
                    ELSE <<>>
               /\ Registered(q)' <=>
                     ~(regs[q].options.once /\ Immediate(q, out'.arg))]_vars

\* C27: in an emit of data d, a registered listener with validate and
\* transform options is invoked if and only if validate(d) is true (and it
\* is not a once registration that already executed), and then receives
\* transform(d); a once registration whose validate refuses d stays
\* registered, and an emit removes a once registration from the registry
\* only when it has delivered data that passes validate to its listener.
C27_ValidateThenTransform ==
    [][\A q \in RegIds :
          ( /\ Did("emit", "ping") /\ Registered(q)
            /\ regs[q].options.validate /= "none"
            /\ regs[q].options.transform /= "none" )
          => LET d  == out'.arg
                 o  == regs[q].options
                 ok == Validate(o.validate, d)
             IN /\ CallsBy(out', q) =
                     IF ok /\ ~(o.once /\ regs[q].hasExecuted)
                     THEN <<Call("listener", "ping", RegName(q),
                                 Transform(o.transform, d), "-")>>
                     ELSE <<>>
                /\ ~ok => Registered(q)' /\ regs'[q] = regs[q]
                /\ ~Registered(q)' => o.once /\ ok /\ CallsBy(out', q) /= <<>>
    ]_vars

\* emit("ping", "v2") has just run with a once registration whose
\* validate refuses v2: its listener was not invoked and it is still
\* registered, not executed
C27_Witness ==
    /\ out.op = "emit" /\ out.arg = "v2" /\ out.calls = <<>>
    /\ regs[1].options.once /\ regs[1].options.validate = "notV2"
    /\ Registered(1) /\ ~regs[1].hasExecuted

\* C28: with both debounce and throttle configured, an accepted publish
\* invokes no onChange and only sets the debounce timer anew, debounce ms
\* ahead, with the values of this publish; the throttle timestamp of the
\* channel stays untouched; onChange is invoked by the debounce timer
\* alone.  Likewise an emit does not invoke the listener of a registration
\* with both options: it sets its debounce timer anew and leaves its
\* lastCallTime; the listener is invoked by the timer alone.
C28_DebounceGovernsOverThrottle ==
    /\ [][\A n \in Names :
            ( /\ AcceptedPublish(n)
              /\ channels[n].config.onChange
              /\ channels[n].config.debounce > 0
              /\ channels[n].config.throttle > 0 )
            => /\ CallsOf(out', "onChange", n) = <<>>
               /\ timers'[n].deb =
                     [pending |-> TRUE, at |-> now + channels[n].config.debounce,
                      new |-> StoredValue(n), old |-> channels[n].value]
               /\ channels'[n].onChangeLastCall = channels[n].onChangeLastCall
       ]_vars
    /\ [][\A q \in RegIds :
            ( /\ Did("emit", "ping") /\ Registered(q)
              /\ regs[q].options.debounce > 0 /\ regs[q].options.throttle > 0 )
            => /\ CallsBy(out', q) = <<>>
               /\ regs'[q].debounceTimer =
                     [pending |-> TRUE, at |-> now + regs[q].options.debounce,
                      data |-> out'.arg]
               /\ regs'[q].lastCallTime = regs[q].lastCallTime]_vars
    /\ [][out'.calls /= <<>> => out'.op \in {"debounce", "listenerTimer"}]_vars

\* two publishes and two emits within the debounce interval, a tick apart:
\* nothing was invoked, both timers wait with the values of the second
C28_Witness ==
    \E n \in Names :
        /\ channels[n].live /\ channels[n].config.throttle > 0
        /\ now = StartTime + 1
        /\ timers[n].deb = [pending |-> TRUE, at |-> now + Debounce,
                            new |-> "v2", old |-> "v1"]
        /\ channels[n].onChangeLastCall = 0
        /\ Registered(1) /\ regs[1].options.throttle > 0
        /\ regs[1].debounceTimer = [pending |-> TRUE, at |-> now + Debounce,
                                    data |-> "v2"]
        /\ regs[1].lastCallTime = 0
        /\ out.calls = <<>> /\ out.op \in {"publish", "emit"}

\* reading the entry of the key throws: the access is refused, or the text
\* is none JSON.parse accepts
Unreadable(storage, key) ==
    /\ storage /= "memory"
    /\ \/ storageDenied
       \/ store[storage][key] \notin (Parsable \cup {NoItem, ""})

\* C29: no failure of the store reaches the caller or stops the operation.
\* channel() on a name without channel whose entry cannot be read creates
\* the channel with config.initialValue and returns its handle; an accepted
\* publish whose write fails stores the new value in the channel and
\* invokes onChange and every subscriber; clear while the store refuses
\* access removes the channel, its subscribers and its name, after onClear.
\* Each failure is logged.
C29_StorageFailuresAreContained ==
    /\ [](~out.thrown)
    /\ [][\A n \in Names :
            ( /\ Did("channel", n) /\ ~channels[n].live
              /\ Unreadable(channels'[n].storage, channels'[n].storageKey) )
            => /\ channels'[n].live
               /\ GetValue(n)' = channels'[n].config.initialValue
               /\ out'.ret = channels'[n].inst /\ out'.ret = GetSignal(n)'
               /\ out'.serr]_vars
    /\ [][\A n \in Names :
            (AcceptedPublish(n) /\ out'.serr)
            => /\ channels[n].storage /= "memory"
               /\ store' = store
               /\ GetValue(n)' = StoredValue(n)
               /\ channels[n].config.onChange
                     => CallsOf(out', "onChange", n) =
                           <<Call("onChange", n, "-", StoredValue(n),
                                  channels[n].value)>>
               /\ CallsOf(out', "subscriber", n) =
                     SubscriberCalls(n, channels[n].subscribers, StoredValue(n))
       ]_vars
    /\ [][\A n \in Names :
            ( /\ Did("clear", n) /\ channels[n].live
              /\ channels[n].storage /= "memory" /\ storageDenied )
            => /\ ~channels'[n].live /\ ~InSeq(ListChannels', n)
               /\ SubscribersCount(n)' = 0
               /\ channels[n].config.onClear
                     => out'.calls = <<Call("onClear", n, "-", "-", "-")>>
               /\ out'.serr]_vars

\* a publish on a session channel with two subscribers whose write to the
\* store failed: the channel holds the new value, the store does not, both
\* subscribers and onChange were invoked, the failure was logged
C29_Witness ==
    \E n \in Names :
        /\ channels[n].live /\ channels[n].storage = "session"
        /\ out.op = "publish" /\ out.name = n /\ out.serr /\ ~out.thrown
        /\ GetValue(n) = "v2" /\ StoredText(n) /= JSONstringify("v2")
        /\ HasCall(out, "onChange")
        /\ CallsOf(out, "subscriber", n) =
              <<Call("subscriber", n, "s1", "v2", "-"),
                Call("subscriber", n, "s2", "v2", "-")>>

\* the step invoked the hook of channel n
Hook(fn, n) == CallsOf(out', fn, n) /= <<>>

\* C30: an exception of a hook is caught and logged and the operation goes
\* on as if the hook had returned.  An accepted publish whose onInit or
\* onChange throws stores the value and invokes every subscriber with it;
\* channel() whose onInit throws leaves the channel live and returns its
\* handle; clear whose onClear throws removes the channel, its timers, its
\* subscribers, its name and its storage entry; a debounced onChange that
\* throws when its timer fires changes nothing.  No exception reaches the
\* caller.
C30_HookExceptionsAreCaught ==
    /\ [](~out.thrown)
    /\ [][\A n \in Names :
            (AcceptedPublish(n) /\ channels[n].config.hooksThrow)
            => /\ GetValue(n)' = StoredValue(n)
               /\ CallsOf(out', "subscriber", n) =
                     SubscriberCalls(n, channels[n].subscribers, StoredValue(n))
               /\ out'.cerr <=> (Hook("onInit", n) \/ Hook("onChange", n))
               /\ (channels[n].config.debounce = 0
                      /\ ThrottleOpen(channels[n], channels[n].config.throttle))
                     => Hook("onChange", n)]_vars
    /\ [][\A n \in Names :
            ( /\ Did("channel", n) /\ ~channels[n].live
              /\ channels'[n].config.hooksThrow /\ Hook("onInit", n) )
            => /\ channels'[n].live /\ channels'[n].isInitialized
               /\ out'.ret = channels'[n].inst /\ out'.cerr]_vars
    /\ [][\A n \in Names :
            ( /\ out'.op \in {"clear", "ttl"} /\ out'.name = n
              /\ channels[n].live /\ channels[n].config.hooksThrow )
            => /\ Hook("onClear", n) /\ out'.cerr
               /\ ~channels'[n].live /\ ~InSeq(ListChannels', n)
               /\ timers'[n] = NoTimers
               /\ SubscribersCount(n)' = 0
               /\ store'[channels[n].storage][channels[n].storageKey] = NoItem
       ]_vars
    /\ [][\A n \in Names :
            (Did("debounce", n) /\ channels[n].config.hooksThrow)
            => /\ Hook("onChange", n) /\ out'.cerr
               /\ channels' = channels /\ store' = store
               /\ timers' = [timers EXCEPT ![n].deb = NoTimer]]_vars

\* the first publish on a channel whose hooks throw: onInit and onChange
\* threw, the subscriber was invoked after them, the value is stored
C30_Witness ==
    \E n \in Names :
        /\ channels[n].live /\ channels[n].config.hooksThrow
        /\ out.op = "publish" /\ out.name = n /\ out.cerr /\ ~out.thrown
        /\ out.calls = <<Call("onInit", n, "-", "v2", "-"),
                         Call("onChange", n, "-", "v2", Undefined),
                         Call("subscriber", n, "s2", "v2", "-")>>
        /\ GetValue(n) = "v2" /\ StoredText(n) = JSONstringify("v2")

\* the handle was made for the channel object that is registered under its
\* name now
Current(h) == channels[h.name].live /\ channels[h.name].inst = h.inst

\* C32: an unsubscribe handle acts on the channel object it was obtained
\* from only.  Calling a handle whose channel object was cleared changes no
\* channel, no store and no timer and invokes no hook, also when a new
\* channel with the same name exists.
C32_StaleHandleTouchesNothing ==
    [][\A h \in handles :
         (out'.op = "unsubscribe" /\ ~Current(h) /\ Unsubscribe(h))
         => /\ channels' = channels /\ chanOrder' = chanOrder
            /\ store' = store /\ timers' = timers
            /\ out'.calls = <<>>]_vars

\* C34: after off(name) no pending debounced invocation of a listener of
\* that name is carried out: when the debounce timer of a registration
\* fires whose Set object off has unregistered, the listener is not invoked.
C34_OffCancelsPendingDebounce ==
    [][\A r \in RegIds :
         ( /\ out'.op = "listenerTimer"
           /\ regs[r].used /\ regs[r].debounceTimer.pending
           /\ ~regs'[r].debounceTimer.pending
           /\ eventListeners[regs[r].name] /= regs[r].set )
         => CallsBy(out', r) = <<>>]_vars

\* C36: every subscribe call is a registration of its own.  When a callback
\* was subscribed twice to a channel object and no handle for it was called
\* since, calling one handle leaves the callback subscribed (and the
\* channel live), so that the next publish still notifies it.
C36_SubscriptionsAreSeparate ==
    [][\A h \in handles :
         ( /\ out'.op = "unsubscribe" /\ Current(h) /\ h.cb \in Callbacks
           /\ subscriptions[h.cb] = [inst |-> h.inst, count |-> 2]
           /\ UnsubscribeCounted(h) )
         => /\ channels'[h.name].live
            /\ InSeq(channels'[h.name].subscribers, h.cb)]_vars

\* the store holds an entry under the storage key of channel n
HasEntry(n) == StoredText(n) /= NoItem

\* C35: for a live channel in session or persistent mode, an entry under
\* its storage key is the JSON text of its current value (it parses, and
\* to that value); after an accepted publish there is such an entry.
C35_EntryEqualsValue ==
    /\ [](\A n \in Names :
            (channels[n].live /\ channels[n].storage /= "memory" /\ HasEntry(n))
            => /\ StoredText(n) \in Parsable
               /\ JSONparse(StoredText(n)) = channels[n].value)
    /\ [][\A n \in Names :
            (AcceptedPublish(n) /\ channels[n].storage /= "memory")
            => HasEntry(n)']_vars

\* publish(n, v2) reaches a hook of the channel that throws on v2: its
\* validate hook, or its transform hook when it has no validate hook
ReachesThrowingHook(n) ==
    /\ Did("publish", n) /\ channels[n].live /\ out'.arg = "v2"
    /\ \/ channels[n].config.validate = "throwsV2"
       \/ /\ channels[n].config.validate = "none"
          /\ channels[n].config.transform = "throwsV2"

\* C38: when validate or transform throws during publish on an existing
\* channel, the exception reaches the caller and the channel is as before
\* the call: value, storage entry, isInitialized, subscribers and the
\* pending debounce timer unchanged, no hook and no subscriber invoked.
C38_ThrowingValidateOrTransform ==
    [][\A n \in Names :
         ReachesThrowingHook(n)
         => /\ out'.thrown
            /\ channels' = channels /\ chanOrder' = chanOrder
            /\ store' = store /\ timers' = timers
            /\ out'.calls = <<>> /\ ~out'.warn /\ ~out'.cerr]_vars

\* transform threw in a publish on a channel that holds v1, is persisted,
\* has a subscriber and a debounced onChange pending
C38_Witness ==
    \E n \in Names :
        /\ out.op = "publish" /\ out.name = n /\ out.arg = "v2" /\ out.thrown
        /\ out.calls = <<>>
        /\ channels[n].live /\ channels[n].config.transform = "throwsV2"
        /\ channels[n].value = "v1" /\ StoredText(n) = "1"
        /\ channels[n].subscribers = <<"s2">>
        /\ timers[n].deb.pending

\* the guard allowed: true, or an object whose `continue` is true
Allows(result) == result.kind \in {"boolean", "object"} /\ result.continue

\* C39: of two navigate() requests whose guard calls are pending together,
\* the one requested last determines where the router ends, in whatever
\* order the guard calls settle.  When the guard has just allowed a
\* navigation and the router has performed it, and the very first call of
\* the guard (for a navigation requested before) is allowed only now, the
\* location, the last history entry and currentPath stay the path of the
\* later request.
C39_LastRequestWins ==
    [][\A p \in pendingGuards, result \in Results :
         ( /\ out.op = "settled navigate" /\ Allows(out.arg)
           /\ location = out.name
           /\ p.kind = "navigate" /\ p.id = 1
           /\ Allows(result) /\ Settle(p, result) )
         => /\ location' = out.name
            /\ history'[Len(history')] = out.name
            /\ router'.currentPath = out.name]_vars

\* the calls of subscriber cb in what the handler did
DeliveredTo(o, cb) ==
    SelectSeq(o.calls, LAMBDA c : c.fn = "subscriber" /\ c.who = cb)

\* C33: when publish returns, also one during which a subscriber published
\* to the same channel, the last value delivered to every subscriber of
\* the channel is the value getValue returns.
C33_ReentrantPublishEndsConsistent ==
    [][\A n \in Names :
         (Did("publish", n) /\ channels[n].live /\ out'.calls /= <<>>)
         => \A i \in 1..Len(channels[n].subscribers) :
              LET d == DeliveredTo(out', channels[n].subscribers[i])
              IN d /= <<>> /\ d[Len(d)].arg = GetValue(n)']_vars

\* the getter is decorated with @delay
Delayed == loadController.kind = "delay"

\* what getValue gives while the content is not loaded: placeholder ?? null
PlaceholderOrNull ==
    IF loadController.placeholder = Undefined THEN Null
    ELSE loadController.placeholder

\* the timing, the caching and the update request of @delay
DelayShowsPlaceholderThenContent ==
    \* a read before ms have elapsed since the element was connected
    /\ [][( /\ Delayed /\ out'.op = "get"
            /\ \/ element.connectedAt = 0
               \/ now < element.connectedAt + loadController.delay )
          => out'.ret = PlaceholderOrNull]_vars
    \* the load ends when the timer has fired and the loader has settled,
    \* with the value of the original getter, and requests an update
    /\ [][(Delayed /\ ~loadController.isLoaded /\ loadController'.isLoaded)
          => /\ out'.op = (IF loadController.loader THEN "settled" ELSE "timer")
             /\ loadController'.cachedValue = Content(element.data)
             /\ HasCall(out', "originalGetter")
             /\ HasCall(out', "requestUpdate")]_vars
    \* a read after that returns the cached value and evaluates nothing
    /\ [][(Delayed /\ out'.op = "get" /\ loadController.isLoaded)
          => out'.ret = loadController.cachedValue /\ out'.calls = <<>>]_vars
    \* disconnected with the timer cancelled before it fired: not loaded
    \* while the element stays disconnected
    /\ [][( /\ Delayed /\ ~element.connected /\ ~element'.connected
            /\ loadController.inflight = 0 /\ ~loadController.isLoaded )
          => ~loadController'.isLoaded]_vars

\* C31: a getter with @delay(ms) returns the placeholder (or null) on every
\* read before ms have elapsed since the element was connected; once the
\* timer has fired and the loader, if any, has settled it returns the
\* value of the original getter, which is evaluated once and cached, and
\* an update of the element is requested; disconnected before the timer
\* fires, the content is not loaded while the element stays disconnected.
C31_DelayedContent ==
    /\ DelayShowsPlaceholderThenContent
    /\ [](Delayed => loadController.evaluations <= 1)

\* C37: the controllers of @lazy, @defer and @delay start the loader at
\* most once and evaluate the original getter at most once, under every
\* interleaving of hostConnected, hostDisconnected, intersection callbacks
\* and completions of the loader; isLoaded never goes back to false.
C37_LoadsAtMostOnce ==
    /\ [](loadController.loaderStarts <= 1 /\ loadController.evaluations <= 1)
    /\ [][loadController.isLoaded => loadController'.isLoaded]_vars

====
